---- MODULE Spec2Model ----
(***************************************************************************)
(* Verification model of the XLS JIT channel queue (ByteQueue and its     *)
(* typed wrappers) and of the serial proc runtime (SerialProcRuntime).    *)
(*                                                                         *)
(* Five specifications are defined over one set of variables:             *)
(*   SpecQueue    drives a single ByteQueue through typed writes and      *)
(*                reads;                                                    *)
(*   Spec         drives a SerialProcRuntime over a small process network; *)
(*   SpecThreads  drives one ThreadSafeJitChannelQueue from two threads;   *)
(*   SpecCodec    packs and unpacks one value of a structured type, on its *)
(*                own and through a queue;                                 *)
(*   SpecCalls    drives a SerialProcRuntime, with raw enqueues, over      *)
(*                packages with and without procs.                         *)
(***************************************************************************)
EXTENDS Integers, Sequences, FiniteSets, TLC

VARIABLES
  \* ---- one channel queue under test (SpecQueue) ----
  byte_queue,      \* the ByteQueue object (record of its fields)
  written,         \* history: values written, in write order
  readlog,         \* history: values returned by successful reads, in order
  last_read_ok,    \* result of the most recent read ("none" before any read)
  resizes,         \* history: number of Resize calls made by writes
  wrapped_resize,  \* history: some Resize ran with read_index_ != 0
  access,          \* history: the kinds of access made (typed / raw)
  unsafe_queue,    \* byte_queue_ of a ThreadUnsafeJitChannelQueue that is
                   \* given the same operations as the queue under test
  last_results,    \* result of the most recent operation on either variant
  codec,           \* the value under test of SpecCodec, its type, the buffer
                   \* it was packed into and what was unpacked
  \* ---- the serial proc runtime (Spec) ----
  net,             \* the package: procs in declaration order and channels
  queues,          \* queue_mgr_: channel -> ByteQueue
  continuations,   \* continuations_: proc -> continuation
  proc_jits,       \* proc_jits_: proc -> the compiled entry point made for
                   \* it and the queue manager that was handed to
                   \* ProcJit::Create
  queue_mgr,       \* queue_mgr_: 0 for nullptr, else the manager object
  tick_pc,         \* where the program is: "idle" between calls, "while"
                   \* and "for" inside SerialProcRuntime::Tick, "none" when
                   \* Create returned no runtime, "aborted" after a fatal
                   \* check
  progress_made,   \* local of Tick
  completed_procs, \* local of Tick
  proc_i,          \* position of the for loop over package_->procs()
  tick_result,     \* status returned by the most recent Tick
  last_op,         \* most recent runtime operation that returned
  call_status,     \* what the most recent call other than Tick returned
  call_arg,        \* the identity (and value size) an enqueue or a lookup
                   \* was given
  pre_tick,        \* history: queues and continuations when Tick was entered
  pre_reset,       \* history: queues and continuations when ResetState was
                   \* entered
  pass_count,      \* history: passes of the while loop in the current Tick
  tick_count,      \* history: Tick calls made
  ext_count,       \* history: external enqueue/dequeue/reset calls made
  sent_total,      \* history: proc -> sends performed
  ticks_done,      \* history: proc -> completed ticks
  abandoned,       \* history: proc -> sends of ticks discarded by ResetState
  resumed,         \* history: procs resumed from a blocked receive that
                   \* follows a send
  ext_enq,         \* history: channel -> values enqueued from outside
  last_progress,   \* history: progress_made at the end of the last pass
  invoked,         \* history: the invocations of the current Tick in the
                   \* order made, each with its pass and its TickResult
  \* ---- one thread-safe queue used by several threads (SpecThreads) ----
  shared_queue,    \* byte_queue_ of the ThreadSafeJitChannelQueue
  mutex,           \* mutex_ of the queue: 0 when free, else the holder
  threads          \* thread -> its calls, its position and its results

queue_vars == <<byte_queue, written, readlog, last_read_ok, resizes,
                wrapped_resize, access, unsafe_queue, last_results, codec>>

runtime_vars == <<net, queues, continuations, proc_jits, queue_mgr, tick_pc,
                  progress_made,
                  completed_procs, proc_i, tick_result, last_op, call_status,
                  call_arg, pre_tick,
                  pre_reset, pass_count, tick_count, ext_count, sent_total,
                  ticks_done, abandoned, resumed, ext_enq, last_progress,
                  invoked>>

thread_vars == <<shared_queue, mutex, threads>>

vars == <<queue_vars, runtime_vars, thread_vars>>

(***************************************************************************)
(* Bounds of the exploration.                                              *)
(***************************************************************************)
MaxWrites == 10    \* writes made to the queue under test
MaxSingleOps == 6  \* writes and reads made to a single-value queue under test
MaxTicks == 2      \* Tick calls per behaviour
MaxExtOps == 2     \* external enqueue / dequeue / reset calls per behaviour
MaxCalls == 2      \* Enqueue / Dequeue calls made by each thread

(***************************************************************************)
(* Program and platform constants.                                         *)
(***************************************************************************)
kInitBufferSize == 128   \* ByteQueue::kInitBufferSize
MaxAlign == 16           \* alignof(std::max_align_t)

(***************************************************************************)
(* Integer helpers used by the ByteQueue constructor and Resize.           *)
(***************************************************************************)
RoundUpToNearest(x, y) == ((x + y - 1) \div y) * y

FloorOfRatio(a, b) == a \div b

RECURSIVE CeilOfLog2(_)
CeilOfLog2(x) == IF x <= 1 THEN 0 ELSE 1 + CeilOfLog2((x + 1) \div 2)

Zeros(n) == [i \in 1..n |-> 0]

(***************************************************************************)
(* Value codec.  A value of the n-byte bits type is laid out little        *)
(* endian in n bytes.                                                       *)
(***************************************************************************)
RECURSIVE ToBytes(_, _)
ToBytes(v, n) ==
  IF n = 0 THEN <<>>
  ELSE IF v = 0 THEN Zeros(n)
  ELSE <<v % 256>> \o ToBytes(v \div 256, n - 1)

RECURSIVE FromBytes(_)
FromBytes(b) ==
  IF \A i \in 1..Len(b) : b[i] = 0 THEN 0
  ELSE b[1] + 256 * FromBytes(Tail(b))

\* Splats value into buffer (of at least type_bytes bytes).
BlitValueToBuffer(value, type_bytes, buffer) ==
  LET bytes == ToBytes(value, type_bytes)
  IN [i \in 1..Len(buffer) |->
        IF i <= type_bytes THEN bytes[i] ELSE buffer[i]]

UnpackBuffer(buffer, type_bytes) == FromBytes(SubSeq(buffer, 1, type_bytes))

(***************************************************************************)
(* Value codec for structured types.  A type is bits of a width, a tuple   *)
(* of types or an array of a type; a bits value is a natural number below  *)
(* 2^width, a tuple or array value is the sequence of its elements.  Bits  *)
(* take the least number of whole bytes; the elements of a tuple or array  *)
(* follow each other in declared order without padding.                    *)
(***************************************************************************)
BitsType(w) == [kind |-> "bits", width |-> w, elems |-> <<>>]
TupleType(ts) == [kind |-> "tuple", width |-> 0, elems |-> ts]
ArrayType(n, t) == [kind |-> "array", width |-> 0, elems |-> [i \in 1..n |-> t]]

\* The packed size of a type.
RECURSIVE TypeBytes(_)
TypeBytes(t) ==
  LET RECURSIVE Sum(_)
      Sum(k) == IF k = 0 THEN 0 ELSE TypeBytes(t.elems[k]) + Sum(k - 1)
  IN IF t.kind = "bits" THEN (t.width + 7) \div 8 ELSE Sum(Len(t.elems))

\* The packed bytes of value v of type t.
RECURSIVE PackValue(_, _)
PackValue(v, t) ==
  LET RECURSIVE Cat(_)
      Cat(k) == IF k = 0 THEN <<>>
                ELSE Cat(k - 1) \o PackValue(v[k], t.elems[k])
  IN IF t.kind = "bits" THEN ToBytes(v, TypeBytes(t)) ELSE Cat(Len(t.elems))

\* JitRuntime::BlitValueToBuffer for a structured type: the packed bytes are
\* written at the start of the buffer.
BlitTypedValueToBuffer(value, type, buffer) ==
  LET bytes == PackValue(value, type)
  IN [i \in 1..Len(buffer) |->
        IF i <= Len(bytes) THEN bytes[i] ELSE buffer[i]]

\* JitRuntime::UnpackBuffer for a structured type: the value of type t
\* whose packed bytes start buffer b.
RECURSIVE UnpackTypedBuffer(_, _)
UnpackTypedBuffer(b, t) ==
  LET RECURSIVE Offset(_)
      Offset(k) == IF k = 1 THEN 0
                   ELSE Offset(k - 1) + TypeBytes(t.elems[k - 1])
  IN IF t.kind = "bits"
     THEN FromBytes(SubSeq(b, 1, TypeBytes(t))) % (2 ^ t.width)
     ELSE [k \in 1..Len(t.elems) |->
             UnpackTypedBuffer(SubSeq(b, Offset(k) + 1, Len(b)), t.elems[k])]

(***************************************************************************)
(* ByteQueue.  circular_buffer is the byte vector; offsets are 0-based as  *)
(* in the code, so byte offset k is circular_buffer[k + 1].                *)
(***************************************************************************)
ByteQueueCtor(channel_element_size, is_single_value) ==
  LET allocated == RoundUpToNearest(channel_element_size, MaxAlign)
      element_size_2 == 2 ^ CeilOfLog2(allocated)
      buffer_size == IF element_size_2 > kInitBufferSize
                     THEN element_size_2 ELSE kInitBufferSize
  IN [channel_element_size |-> channel_element_size,
      allocated_element_size |-> allocated,
      is_single_value |-> is_single_value,
      circular_buffer |-> Zeros(buffer_size),
      max_byte_count |-> FloorOfRatio(buffer_size, allocated) * allocated,
      read_index |-> 0,
      write_index |-> 0,
      bytes_used |-> 0]

\* Mutant: the wrapped prefix is not moved behind the unread data.
Resize_NoMove(q) ==
  LET new_size == Len(q.circular_buffer) * 2
      new_max == FloorOfRatio(new_size, q.allocated_element_size)
                 * q.allocated_element_size
      grown == q.circular_buffer \o Zeros(Len(q.circular_buffer))
      wi == q.bytes_used + q.read_index
  IN [q EXCEPT !.circular_buffer = grown,
               !.max_byte_count = new_max,
               !.write_index = IF wi = new_max THEN 0 ELSE wi]

\* Mutant: the write index is realigned without the read offset.
Resize_NoReadOffset(q) ==
  LET new_size == Len(q.circular_buffer) * 2
      new_max == FloorOfRatio(new_size, q.allocated_element_size)
                 * q.allocated_element_size
      grown == q.circular_buffer \o Zeros(Len(q.circular_buffer))
      moved == IF q.read_index # 0
               THEN [i \in 1..new_size |->
                       IF /\ i - 1 >= q.bytes_used
                          /\ i - 1 < q.bytes_used + q.read_index
                       THEN grown[i - q.bytes_used]
                       ELSE grown[i]]
               ELSE grown
      wi == q.bytes_used
  IN [q EXCEPT !.circular_buffer = moved,
               !.max_byte_count = new_max,
               !.write_index = IF wi = new_max THEN 0 ELSE wi]

\* Mutant: the usable byte count is doubled with the buffer, not recomputed.
Resize_DoubleUsable(q) ==
  LET new_size == Len(q.circular_buffer) * 2
      new_max == q.max_byte_count * 2
      grown == q.circular_buffer \o Zeros(Len(q.circular_buffer))
      moved == IF q.read_index # 0
               THEN [i \in 1..new_size |->
                       IF /\ i - 1 >= q.bytes_used
                          /\ i - 1 < q.bytes_used + q.read_index
                       THEN grown[i - q.bytes_used]
                       ELSE grown[i]]
               ELSE grown
      wi == q.bytes_used + q.read_index
  IN [q EXCEPT !.circular_buffer = moved,
               !.max_byte_count = new_max,
               !.write_index = IF wi = new_max THEN 0 ELSE wi]

\* Mutant: the unread region is moved to the start of the buffer and the
\* read index reset.
Resize_ToFront(q) ==
  LET new_size == Len(q.circular_buffer) * 2
      new_max == FloorOfRatio(new_size, q.allocated_element_size)
                 * q.allocated_element_size
      grown == q.circular_buffer \o Zeros(Len(q.circular_buffer))
      moved == [i \in 1..new_size |->
                  IF i - 1 < q.bytes_used
                  THEN grown[((q.read_index + i - 1) % q.max_byte_count) + 1]
                  ELSE grown[i]]
      wi == q.bytes_used
  IN [q EXCEPT !.circular_buffer = moved,
               !.max_byte_count = new_max,
               !.read_index = 0,
               !.write_index = IF wi = new_max THEN 0 ELSE wi]

\* ByteQueue::Resize.  std::move(begin, begin + read_index_, begin +
\* bytes_used_) copies bytes [0, read_index) to [bytes_used, bytes_used +
\* read_index); the destination starts at or after the end of the source.
Resize(q) ==
  LET new_size == Len(q.circular_buffer) * 2
      new_max == FloorOfRatio(new_size, q.allocated_element_size)
                 * q.allocated_element_size
      grown == q.circular_buffer \o Zeros(Len(q.circular_buffer))
      moved == IF q.read_index # 0
               THEN [i \in 1..new_size |->
                       IF /\ i - 1 >= q.bytes_used
                          /\ i - 1 < q.bytes_used + q.read_index
                       THEN grown[i - q.bytes_used]
                       ELSE grown[i]]
               ELSE grown
      wi == q.bytes_used + q.read_index
  IN [q EXCEPT !.circular_buffer = moved,
               !.max_byte_count = new_max,
               !.write_index = IF wi = new_max THEN 0 ELSE wi]

\* memcpy(circular_buffer_.data() + offset, data, channel_element_size_)
CopyIn(buffer, offset, data, n) ==
  [i \in 1..Len(buffer) |->
     IF i - 1 >= offset /\ i - 1 < offset + n THEN data[i - offset]
     ELSE buffer[i]]

\* ByteQueue::Write.  A single-value queue overwrites its one slot; a FIFO
\* queue grows when full and stores the element in the next free slot.
Write(q, data) ==
  IF q.is_single_value
  THEN [q EXCEPT !.circular_buffer =
                    CopyIn(q.circular_buffer, 0, data, q.channel_element_size),
                 !.bytes_used = q.allocated_element_size]
  ELSE LET r == IF q.bytes_used = q.max_byte_count THEN Resize(q) ELSE q
           wi == r.write_index + r.allocated_element_size
       IN [r EXCEPT !.circular_buffer =
                       CopyIn(r.circular_buffer, r.write_index, data,
                              r.channel_element_size),
                    !.bytes_used = r.bytes_used + r.allocated_element_size,
                    !.write_index = IF wi = r.max_byte_count THEN 0 ELSE wi]

\* ByteQueue::Read.  Returns whether an element was copied out, the output
\* buffer (untouched when there is no data) and the queue afterwards.
Read(q, out_buffer) ==
  IF q.bytes_used = 0
  THEN [ok |-> FALSE, buffer |-> out_buffer, queue |-> q]
  ELSE LET data == [i \in 1..Len(out_buffer) |->
                      IF i <= q.channel_element_size
                      THEN q.circular_buffer[q.read_index + i]
                      ELSE out_buffer[i]]
           ri == q.read_index + q.allocated_element_size
       IN IF q.is_single_value
          THEN [ok |-> TRUE, buffer |-> data, queue |-> q]
          ELSE [ok |-> TRUE, buffer |-> data,
                queue |-> [q EXCEPT
                             !.bytes_used = q.bytes_used
                                            - q.allocated_element_size,
                             !.read_index = IF ri = q.max_byte_count
                                            THEN 0 ELSE ri]]

\* ByteQueue::size
Size(q) == q.bytes_used \div q.allocated_element_size

\* Mutant: a value is stored only when the queue holds none.
WriteValueOnQueue_KeepOldest(value, type_bytes, q) ==
  IF q.bytes_used > 0 THEN q
  ELSE Write(q, BlitValueToBuffer(value, type_bytes,
                                  Zeros(q.channel_element_size)))

\* Mutant: the scratch buffer is written without encoding the value.
WriteValueOnQueue_NoBlit(value, type_bytes, q) ==
  Write(q, Zeros(q.channel_element_size))

WriteValueOnQueue(value, type_bytes, q) ==
  LET buffer == BlitValueToBuffer(value, type_bytes,
                                  Zeros(q.channel_element_size))
  IN Write(q, buffer)

\* Mutant: the result of ByteQueue::Read is ignored and the scratch buffer is
\* decoded in any case.
ReadValueFromQueue_IgnoreResult(type_bytes, q) ==
  LET r == Read(q, Zeros(q.channel_element_size))
  IN [ok |-> TRUE, value |-> UnpackBuffer(r.buffer, type_bytes),
      queue |-> r.queue]

\* The result is [ok, value, queue]; ok = FALSE stands for std::nullopt.
ReadValueFromQueue(type_bytes, q) ==
  LET r == Read(q, Zeros(q.channel_element_size))
  IN IF ~r.ok
     THEN [ok |-> FALSE, value |-> 0, queue |-> r.queue]
     ELSE [ok |-> TRUE, value |-> UnpackBuffer(r.buffer, type_bytes),
           queue |-> r.queue]

\* WriteValueOnQueue and ReadValueFromQueue for a value of a structured
\* type.
WriteTypedValueOnQueue(value, type, q) ==
  Write(q, BlitTypedValueToBuffer(value, type,
                                  Zeros(q.channel_element_size)))

\* Mutant: the scratch buffer is decoded, not the bytes read.
ReadTypedValueFromQueue_Scratch(type, q) ==
  LET r == Read(q, Zeros(q.channel_element_size))
  IN IF ~r.ok
     THEN [ok |-> FALSE, value |-> 0, queue |-> r.queue]
     ELSE [ok |-> TRUE,
           value |-> UnpackTypedBuffer(Zeros(q.channel_element_size), type),
           queue |-> r.queue]

ReadTypedValueFromQueue(type, q) ==
  LET r == Read(q, Zeros(q.channel_element_size))
  IN IF ~r.ok
     THEN [ok |-> FALSE, value |-> 0, queue |-> r.queue]
     ELSE [ok |-> TRUE, value |-> UnpackTypedBuffer(r.buffer, type),
           queue |-> r.queue]

\* ThreadSafeJitChannelQueue and ThreadUnsafeJitChannelQueue: the Internal
\* methods work on the queue's byte_queue_.
ThreadSafeGetSizeInternal(q) == Size(q)

ThreadSafeWriteInternal(value, type_bytes, q) ==
  WriteValueOnQueue(value, type_bytes, q)

\* Mutant: the element read is left in the queue.
ThreadSafeReadInternal_Peek(type_bytes, q) ==
  [ReadValueFromQueue(type_bytes, q) EXCEPT !.queue = q]

ThreadSafeReadInternal(type_bytes, q) == ReadValueFromQueue(type_bytes, q)

ThreadUnsafeGetSizeInternal(q) == Size(q)

\* Mutant: the thread-unsafe variant does not store the value.
ThreadUnsafeWriteInternal_Drop(value, type_bytes, q) == q

ThreadUnsafeWriteInternal(value, type_bytes, q) ==
  WriteValueOnQueue(value, type_bytes, q)

ThreadUnsafeReadInternal(type_bytes, q) == ReadValueFromQueue(type_bytes, q)

\* Mutant: raw elements are kept in a store of their own.
EnqueueBuffer_SeparateStore(q, buffer) == q

\* SerialProcRuntime::EnqueueBufferToChannel: EnqueueRaw writes the caller's
\* bytes into the queue's byte_queue_.
EnqueueBuffer(q, buffer) == Write(q, buffer)

\* SerialProcRuntime::DequeueBufferFromChannel: DequeueRaw reads the oldest
\* element of byte_queue_ into the caller's buffer.
DequeueBuffer(q, buffer) == Read(q, buffer)

\* The values that successive reads return until the queue reports no data
\* (for a single-value queue, the one value a read returns).
RECURSIVE Contents(_)
Contents(q) ==
  LET r == ReadValueFromQueue(q.channel_element_size, q)
  IN IF ~r.ok THEN <<>>
     ELSE IF q.is_single_value THEN <<r.value>>
     ELSE <<r.value>> \o Contents(r.queue)

(***************************************************************************)
(* Process networks.  A package declares three channels (all of the        *)
(* two-byte bits type) and procs; order lists the procs in declaration     *)
(* order.  A proc body is a sequence of channel operations; upd says how   *)
(* the persistent state is updated when the body completes; uncompilable   *)
(* names the procs for which ProcJit::Create returns an error.             *)
(***************************************************************************)
Chans == {1, 2, 3}
ChanTypeBytes == 2
ValueModulus == 2 ^ (8 * ChanTypeBytes)

\* An operation of a proc body.  A send writes mul * x + add, where from
\* names x: the value last received ("acc"), the persistent state ("state"),
\* their sum ("sum") or nothing ("const").  A receive stores the value it
\* reads in acc, added to acc when from is "acc".  An if compares x with add
\* and, when the comparison fails, jumps over the next skip operations.
Op(op, c, from, m, k, rel, skip) ==
  [op |-> op, ch |-> c, from |-> from, mul |-> m, add |-> k, rel |-> rel,
   skip |-> skip]

Send(c, from, k) == Op("send", c, from, 1, k, "none", 0)
SendMul(c, from, m, k) == Op("send", c, from, m, k, "none", 0)
Recv(c) == Op("recv", c, "none", 1, 0, "none", 0)
RecvAdd(c) == Op("recv", c, "acc", 1, 0, "none", 0)
If(from, rel, k, skip) == Op("if", 0, from, 1, k, rel, skip)
Fail == Op("fail", 0, "none", 1, 0, "none", 0)

\* A channel: its discipline, its declared initial values and the size of
\* the type these values have (the channel's own type unless the package is
\* malformed).
Fifo(init) == [single |-> FALSE, init |-> init, init_bytes |-> ChanTypeBytes]
SingleValue(init) ==
  [single |-> TRUE, init |-> init, init_bytes |-> ChanTypeBytes]

Body(ops, init, upd) == [ops |-> ops, init |-> init, upd |-> upd]

\* A sends, then waits for B's answer; B answers what it received plus one.
NetPingPong ==
  [name |-> "pingpong",
   procs |-> <<Body(<<Send(1, "state", 0), Recv(2)>>, 3, "acc"),
               Body(<<Recv(1), Send(2, "acc", 1)>>, 0, "keep")>>,
   chans |-> <<Fifo(<<>>), Fifo(<<>>), Fifo(<<>>)>>,
   uncompilable |-> {}]

\* A sends one value, B receives exactly one value.
NetProducerConsumer ==
  [name |-> "producer_consumer",
   procs |-> <<Body(<<Send(1, "const", 7)>>, 0, "keep"),
               Body(<<Recv(1)>>, 0, "acc")>>,
   chans |-> <<Fifo(<<>>), Fifo(<<>>), Fifo(<<>>)>>,
   uncompilable |-> {}]

\* A sends, then receives from channel 3, which no proc writes.
NetStarved ==
  [name |-> "starved",
   procs |-> <<Body(<<Send(1, "state", 0), Recv(3), Send(2, "acc", 0)>>,
                    5, "inc"),
               Body(<<Recv(1)>>, 0, "acc")>>,
   chans |-> <<Fifo(<<>>), Fifo(<<>>), Fifo(<<>>)>>,
   uncompilable |-> {}]

\* A writes a register that B reads; the register has an initial value.
NetRegister ==
  [name |-> "register",
   procs |-> <<Body(<<Send(1, "const", 9)>>, 0, "keep"),
               Body(<<Recv(1), Send(2, "acc", 0)>>, 0, "acc")>>,
   chans |-> <<SingleValue(<<4>>), Fifo(<<>>), Fifo(<<>>)>>,
   uncompilable |-> {}]

\* A's invocation returns an error after its send.
NetFailing ==
  [name |-> "failing",
   procs |-> <<Body(<<Send(1, "const", 1), Fail>>, 0, "keep"),
               Body(<<Recv(1), Send(2, "acc", 0)>>, 0, "keep")>>,
   chans |-> <<Fifo(<<>>), Fifo(<<>>), Fifo(<<>>)>>,
   uncompilable |-> {}]

\* One proc forwarding from a FIFO declared with two initial values.
NetSeeded ==
  [name |-> "seeded",
   procs |-> <<Body(<<Recv(1), Send(2, "acc", 0)>>, 0, "inc")>>,
   chans |-> <<Fifo(<<1, 300>>), Fifo(<<>>), SingleValue(<<8>>)>>,
   uncompilable |-> {}]

\* Channel 2 declares initial values that are not of the channel's type.
NetMalformed ==
  [name |-> "malformed",
   procs |-> <<Body(<<Recv(1), Send(2, "acc", 0)>>, 0, "inc")>>,
   chans |-> <<Fifo(<<6>>),
               [single |-> FALSE, init |-> <<7, 9>>,
                init_bytes |-> 2 * ChanTypeBytes],
               Fifo(<<3>>)>>,
   uncompilable |-> {}]

\* The entry point of proc 2 cannot be created.
NetUncompilable ==
  [name |-> "uncompilable",
   procs |-> <<Body(<<Send(1, "const", 7)>>, 0, "keep"),
               Body(<<Recv(1)>>, 0, "acc")>>,
   chans |-> <<Fifo(<<2>>), Fifo(<<>>), Fifo(<<>>)>>,
   uncompilable |-> {2}]

\* The procs of the translator's I/O tests.  Channel 1 is the test's "in";
\* the values the test feeds are the initial values of that channel.
NoValues == <<Fifo(<<>>), Fifo(<<>>), Fifo(<<>>)>>

InputOn1(values) == <<Fifo(values), Fifo(<<>>), Fifo(<<>>)>>

\* IO: out.write(3 * in.read()); IOProcOneLine: out.write(2 * in.read()).
NetIO(factor) ==
  [name |-> "io",
   procs |-> <<Body(<<Recv(1), SendMul(2, "acc", factor, 0)>>, 0, "keep")>>,
   chans |-> NoValues,
   uncompilable |-> {}]

\* IOMulti: x = in.read(); if (sel) out1.write(3 * x) else out2.write(7 * x).
\* The argument sel is the state the proc keeps.
NetIOMulti(sel) ==
  [name |-> "io_multi",
   procs |-> <<Body(<<Recv(1),
                      If("state", "ne", 0, 1), SendMul(2, "acc", 3, 0),
                      If("state", "eq", 0, 1), SendMul(3, "acc", 7, 0)>>,
                    sel, "keep")>>,
   chans |-> InputOn1(<<5>>),
   uncompilable |-> {}]

\* Mutant: the write is not guarded.
NetIOWriteConditional_Unguarded ==
  [name |-> "io_write_conditional",
   procs |-> <<Body(<<Recv(1), SendMul(2, "acc", 5, 0)>>, 0, "keep")>>,
   chans |-> InputOn1(<<5, 20>>),
   uncompilable |-> {}]

\* IOWriteConditional: x = in.read(); if (x > 10) out.write(5 * x).
NetIOWriteConditional ==
  [name |-> "io_write_conditional",
   procs |-> <<Body(<<Recv(1), If("acc", "gt", 10, 1),
                      SendMul(2, "acc", 5, 0)>>, 0, "keep")>>,
   chans |-> InputOn1(<<5, 20>>),
   uncompilable |-> {}]

\* Mutant: the second read is not guarded.
NetIOProcChainedConditionalRead_Unguarded(inputs) ==
  [name |-> "io_chained_conditional_read",
   procs |-> <<Body(<<Recv(1), Send(2, "acc", 0), RecvAdd(1),
                      If("acc", "gt", 100, 1), Send(2, "acc", 0)>>,
                    0, "keep")>>,
   chans |-> InputOn1(inputs),
   uncompilable |-> {}]

\* IOProcChainedConditionalRead: x = in.read(); out.write(x);
\* if (x < 50) { x += in.read(); if (x > 100) out.write(x); }
NetIOProcChainedConditionalRead(inputs) ==
  [name |-> "io_chained_conditional_read",
   procs |-> <<Body(<<Recv(1), Send(2, "acc", 0),
                      If("acc", "lt", 50, 3), RecvAdd(1),
                      If("acc", "gt", 100, 1), Send(2, "acc", 0)>>,
                    0, "keep")>>,
   chans |-> InputOn1(inputs),
   uncompilable |-> {}]

\* IOSubroutine3: with v = 7 + (in.read() - 1), out.write(v);
\* out.write(2 * v); out.write(55).  Its "in" is channel 3 and its "out" is
\* channel 1, which a second proc forwards value by value to channel 2.
NetIOSubroutine3 ==
  [name |-> "io_subroutine3",
   procs |-> <<Body(<<Recv(3), SendMul(1, "acc", 1, 6),
                      SendMul(1, "acc", 2, 12), Send(1, "const", 55)>>,
                    0, "keep"),
               Body(<<Recv(1), Send(2, "acc", 0), Recv(1), Send(2, "acc", 0),
                      Recv(1), Send(2, "acc", 0)>>, 0, "keep")>>,
   chans |-> <<Fifo(<<>>), Fifo(<<>>), Fifo(<<5>>)>>,
   uncompilable |-> {}]

\* IOUnrolledSubroutine: for i = 0..3, unrolled: out.write(i * in.read()).
NetIOUnrolledSubroutine ==
  [name |-> "io_unrolled_subroutine",
   procs |-> <<Body(<<Recv(1), SendMul(2, "acc", 0, 0),
                      Recv(1), SendMul(2, "acc", 1, 0),
                      Recv(1), SendMul(2, "acc", 2, 0),
                      Recv(1), SendMul(2, "acc", 3, 0)>>, 0, "keep")>>,
   chans |-> InputOn1(<<2, 4, 5, 10>>),
   uncompilable |-> {}]

\* IOProcStaticClassState: static counter st, initially 5;
\* out.write(in.read() + st); ++st.
NetIOProcStaticClassState ==
  [name |-> "io_static_class_state",
   procs |-> <<Body(<<Recv(1), Send(2, "sum", 0)>>, 5, "inc")>>,
   chans |-> InputOn1(<<80, 100, 33>>),
   uncompilable |-> {}]

BaseNetworks == {NetPingPong, NetProducerConsumer, NetStarved, NetRegister,
                 NetFailing, NetSeeded, NetMalformed, NetUncompilable,
                 NetIO(3), NetIO(2), NetIOMulti(1), NetIOMulti(0),
                 NetIOWriteConditional,
                 NetIOProcChainedConditionalRead(<<55>>),
                 NetIOProcChainedConditionalRead(<<40, 65>>),
                 NetIOSubroutine3, NetIOUnrolledSubroutine,
                 NetIOProcStaticClassState}

Orders(n) == {o \in [1..n -> 1..n] : \A i, j \in 1..n : o[i] = o[j] => i = j}

\* A package with its procs declared in order o.
WithOrder(b, o) ==
  [name |-> b.name, procs |-> b.procs, chans |-> b.chans,
   uncompilable |-> b.uncompilable, order |-> o]

Networks ==
  UNION {{WithOrder(b, o) : o \in Orders(Len(b.procs))} : b \in BaseNetworks}

Procs(n) == 1..Len(n.procs)

(***************************************************************************)
(* ProcJit: continuations and one invocation of a proc's compiled body.    *)
(***************************************************************************)
NewContinuation(body) ==
  [pc |-> 1, acc |-> 0, state |-> body.init, blocked |-> FALSE]

NextState(body, c) ==
  IF body.upd = "acc" THEN c.acc
  ELSE IF body.upd = "inc" THEN (c.state + 1) % ValueModulus
  ELSE c.state

\* The value an operation names.
Operand(o, c) ==
  IF o.from = "acc" THEN c.acc
  ELSE IF o.from = "state" THEN c.state
  ELSE IF o.from = "sum" THEN c.acc + c.state
  ELSE 0

SendValue(o, c) == (o.mul * Operand(o, c) + o.add) % ValueModulus

RecvValue(o, c, v) == (Operand(o, c) + v) % ValueModulus

\* Whether the branch guarded by the if operation o is taken.
CondHolds(o, c) ==
  IF o.rel = "lt" THEN Operand(o, c) < o.add
  ELSE IF o.rel = "gt" THEN Operand(o, c) > o.add
  ELSE IF o.rel = "eq" THEN Operand(o, c) = o.add
  ELSE Operand(o, c) # o.add

\* Runs the body from the continuation point until it completes, blocks on a
\* receive that finds no data, or fails.
RECURSIVE RunOps(_, _, _, _)
RunOps(body, c, qs, sent) ==
  IF c.pc > Len(body.ops)
  THEN [error |-> FALSE, tick_complete |-> TRUE,
        continuation |-> [pc |-> 1, acc |-> 0, state |-> NextState(body, c),
                          blocked |-> FALSE],
        queues |-> qs, sent |-> sent]
  ELSE LET o == body.ops[c.pc]
       IN IF o.op = "send"
          THEN RunOps(body, [c EXCEPT !.pc = c.pc + 1, !.blocked = FALSE],
                      [qs EXCEPT ![o.ch] = WriteValueOnQueue(
                                     SendValue(o, c), ChanTypeBytes, qs[o.ch])],
                      sent + 1)
          ELSE IF o.op = "recv"
          THEN LET r == ReadValueFromQueue(ChanTypeBytes, qs[o.ch])
               IN IF r.ok
                  THEN RunOps(body, [c EXCEPT !.pc = c.pc + 1,
                                              !.acc = RecvValue(o, c,
                                                                r.value),
                                              !.blocked = FALSE],
                              [qs EXCEPT ![o.ch] = r.queue], sent)
                  ELSE [error |-> FALSE, tick_complete |-> FALSE,
                        continuation |-> [c EXCEPT !.blocked = TRUE],
                        queues |-> qs, sent |-> sent]
          ELSE IF o.op = "if"
          THEN RunOps(body,
                      [c EXCEPT !.pc = c.pc + 1
                                       + (IF CondHolds(o, c) THEN 0
                                          ELSE o.skip)],
                      qs, sent)
          ELSE [error |-> TRUE, tick_complete |-> FALSE, continuation |-> c,
                queues |-> qs, sent |-> sent]

\* ProcJit::Tick: the TickResult of one invocation and its effects.
ProcJitTick(body, c, qs) ==
  LET r == RunOps(body, c, qs, 0)
  IN [error |-> r.error, tick_complete |-> r.tick_complete,
      progress_made |-> r.tick_complete \/ r.continuation # c,
      continuation |-> r.continuation, queues |-> r.queues, sent |-> r.sent]

(***************************************************************************)
(* SerialProcRuntime.  The steps of Tick are functions of the runtime      *)
(* record so that a whole Tick can also be evaluated as one function.      *)
(***************************************************************************)
Rt == [queues |-> queues, continuations |-> continuations,
       proc_jits |-> proc_jits, queue_mgr |-> queue_mgr,
       tick_pc |-> tick_pc, progress_made |-> progress_made,
       completed_procs |-> completed_procs, proc_i |-> proc_i,
       tick_result |-> tick_result, pass_count |-> pass_count,
       sent_total |-> sent_total, ticks_done |-> ticks_done,
       resumed |-> resumed, last_progress |-> last_progress,
       invoked |-> invoked]

\* JitChannelQueueManager::CreateThreadSafe: one queue per channel.
CreateThreadSafe(n) ==
  [c \in Chans |-> ByteQueueCtor(ChanTypeBytes, n.chans[c].single)]

\* Whether a value of a type of value_bytes bytes has the shape of the
\* channel's type.
ValueConformsToType(value_bytes, type_bytes) == value_bytes = type_bytes

\* ChannelQueue::Enqueue on the queue of channel c in the manager's map qs:
\* a value that is not of the channel's type is refused with an error
\* before anything is written.
ChannelQueueEnqueue(qs, c, v, value_bytes, type_bytes) ==
  IF ~ValueConformsToType(value_bytes, type_bytes)
  THEN [status |-> "error", queues |-> qs]
  ELSE [status |-> "ok",
        queues |-> [qs EXCEPT
                      ![c] = ThreadSafeWriteInternal(v, type_bytes, qs[c])]]

\* Mutant: the value is written before its type is looked at.
EnqueueValue_WriteFirst(qs, c, v, value_bytes) ==
  [status |-> IF ValueConformsToType(value_bytes, ChanTypeBytes)
              THEN "ok" ELSE "error",
   queues |-> [qs EXCEPT ![c] = ThreadSafeWriteInternal(v, ChanTypeBytes,
                                                         qs[c])]]

\* Mutant: the value is enqueued twice.
EnqueueValue_Twice(qs, c, v, value_bytes) ==
  ChannelQueueEnqueue(
    ChannelQueueEnqueue(qs, c, v, value_bytes, ChanTypeBytes).queues,
    c, v, value_bytes, ChanTypeBytes)

\* SerialProcRuntime::EnqueueValueToChannel on the queue map: the status
\* returned and the queue map afterwards.
EnqueueValue(qs, c, v, value_bytes) ==
  ChannelQueueEnqueue(qs, c, v, value_bytes, ChanTypeBytes)

\* Mutant: the initial values are enqueued last one first.
SeedValues_LastFirst(st, c, vals, value_bytes) ==
  LET RECURSIVE Go(_, _)
      Go(acc, k) ==
        IF k = 0 \/ acc.status # "ok" THEN acc
        ELSE Go(EnqueueValue(acc.queues, c, vals[k], value_bytes), k - 1)
  IN Go(st, Len(vals))

\* Init, lines 187-189: the initial values of one channel, in their listed
\* order.  st is the status so far and the queue map; the first error ends
\* the seeding.
RECURSIVE SeedValues(_, _, _, _)
SeedValues(st, c, vals, value_bytes) ==
  IF vals = <<>> \/ st.status # "ok" THEN st
  ELSE SeedValues(EnqueueValue(st.queues, c, Head(vals), value_bytes),
                  c, Tail(vals), value_bytes)

\* Init, lines 186-190: the channels in package order.
RECURSIVE SeedChannels(_, _, _)
SeedChannels(st, n, c) ==
  IF c > Len(n.chans) \/ st.status # "ok" THEN st
  ELSE SeedChannels(SeedValues(st, c, n.chans[c].init,
                               n.chans[c].init_bytes),
                    n, c + 1)

\* The queue map with nothing gone wrong so far.
Unseeded(qs) == [status |-> "ok", queues |-> qs]

\* The continuations and queues right after a successful Create.
InitContinuations(n) == [p \in Procs(n) |-> NewContinuation(n.procs[p])]

InitQueues(n) == SeedChannels(Unseeded(CreateThreadSafe(n)), n, 1).queues

\* ProcJit::Create for proc p, handed queue manager mgr: the k-th entry
\* point made.
ProcJitCreate(p, mgr, k) == [proc |-> p, queue_mgr |-> mgr, ordinal |-> k]

\* Mutant: the queue manager is created before the loop over the procs.
InitQueueMgr_Eager(n) == 1

\* queue_mgr_ after the loop over the procs of Init: the manager is made in
\* the iteration of the first proc (lines 171-176), so a package without
\* procs leaves it nullptr (0).
InitQueueMgr(n) == IF Len(n.order) = 0 THEN 0 ELSE 1

\* proc_jits_ after the first k iterations of that loop.
InitProcJits(n, k) ==
  [p \in {n.order[i] : i \in 1..k} |->
     ProcJitCreate(p, InitQueueMgr(n),
                   CHOOSE i \in 1..k : n.order[i] = p)]

\* The queues of no queue manager.
NoQueues == [c \in {} |-> 0]

\* SerialProcRuntime::Init.  The loop over the procs ends with the error of
\* the first proc whose entry point cannot be created; the seeding follows.
\* Seeding without a queue manager calls GetQueue through a null pointer:
\* the status is then "undefined".
SerialProcRuntimeInit(n) ==
  LET bad == {i \in 1..Len(n.order) : n.order[i] \in n.uncompilable}
      first_bad == CHOOSE i \in bad : \A j \in bad : i <= j
      seeded == SeedChannels(Unseeded(CreateThreadSafe(n)), n, 1)
  IN IF bad # {}
     THEN [status |-> "error", queues |-> CreateThreadSafe(n),
           queue_mgr |-> InitQueueMgr(n),
           proc_jits |-> InitProcJits(n, first_bad - 1),
           continuations |->
              [p \in {n.order[i] : i \in 1..(first_bad - 1)} |->
                 NewContinuation(n.procs[p])]]
     ELSE IF InitQueueMgr(n) = 0
     THEN [status |-> IF \E c \in Chans : n.chans[c].init # <<>>
                      THEN "undefined" ELSE "ok",
           queues |-> NoQueues, queue_mgr |-> 0,
           proc_jits |-> InitProcJits(n, 0),
           continuations |-> InitContinuations(n)]
     ELSE [status |-> seeded.status, queues |-> seeded.queues,
           queue_mgr |-> InitQueueMgr(n),
           proc_jits |-> InitProcJits(n, Len(n.order)),
           continuations |-> InitContinuations(n)]

\* Mutant: the status of Init is dropped and the runtime is returned.
SerialProcRuntimeCreate_IgnoreStatus(n) ==
  [status |-> "ok", runtime |-> TRUE, object |-> SerialProcRuntimeInit(n)]

\* SerialProcRuntime::Create: the status returned, whether a runtime object
\* is returned, and the object Init worked on.
SerialProcRuntimeCreate(n) ==
  LET r == SerialProcRuntimeInit(n)
  IN [status |-> r.status, runtime |-> r.status \in {"ok", "undefined"},
      object |-> r]

\* Mutant: Tick starts every proc afresh.
TickEnter_Fresh(rt) ==
  [rt EXCEPT !.progress_made = TRUE, !.completed_procs = {},
             !.tick_pc = "while", !.pass_count = 0, !.invoked = <<>>,
             !.continuations =
                [p \in DOMAIN rt.continuations |->
                   [pc |-> 1, acc |-> 0, state |-> 0, blocked |-> FALSE]]]

\* Mutant: the set of completed procs is kept from the previous Tick.
TickEnter_KeepCompleted(rt) ==
  [rt EXCEPT !.progress_made = TRUE, !.tick_pc = "while", !.pass_count = 0,
             !.invoked = <<>>]

\* Tick, lines 195-196: the locals at entry.
TickEnter(rt) ==
  [rt EXCEPT !.progress_made = TRUE, !.completed_procs = {},
             !.tick_pc = "while", !.pass_count = 0, !.invoked = <<>>]

\* Mutant: a stalled Tick returns a distinct status.
TickWhile_ReportStall(rt, n) ==
  IF rt.progress_made
  THEN [rt EXCEPT !.progress_made = FALSE, !.proc_i = 1, !.tick_pc = "for",
                  !.pass_count = rt.pass_count + 1]
  ELSE [rt EXCEPT !.tick_pc = "idle",
                  !.tick_result = IF rt.completed_procs = Procs(n)
                                  THEN "ok" ELSE "incomplete"]

\* Mutant: a stalled Tick returns an error status.
TickWhile_StallIsError(rt, n) ==
  IF rt.progress_made
  THEN [rt EXCEPT !.progress_made = FALSE, !.proc_i = 1, !.tick_pc = "for",
                  !.pass_count = rt.pass_count + 1]
  ELSE [rt EXCEPT !.tick_pc = "idle",
                  !.tick_result = IF rt.completed_procs = Procs(n)
                                  THEN "ok" ELSE "error"]

\* Mutant: the loop runs until every proc has completed its tick.
TickWhile_UntilAllComplete(rt, n) ==
  IF rt.completed_procs # Procs(n)
  THEN [rt EXCEPT !.progress_made = FALSE, !.proc_i = 1, !.tick_pc = "for",
                  !.pass_count = rt.pass_count + 1]
  ELSE [rt EXCEPT !.tick_pc = "idle", !.tick_result = "ok"]

\* Mutant: Tick makes a single pass over the procs.
TickWhile_SinglePass(rt, n) ==
  IF rt.progress_made /\ rt.pass_count = 0
  THEN [rt EXCEPT !.progress_made = FALSE, !.proc_i = 1, !.tick_pc = "for",
                  !.pass_count = rt.pass_count + 1]
  ELSE [rt EXCEPT !.tick_pc = "idle", !.tick_result = "ok"]

\* Tick, lines 199-200 and 214: the loop test; either a new pass starts or
\* Tick returns OkStatus.
TickWhile(rt, n) ==
  IF rt.progress_made
  THEN [rt EXCEPT !.progress_made = FALSE, !.proc_i = 1, !.tick_pc = "for",
                  !.pass_count = rt.pass_count + 1]
  ELSE [rt EXCEPT !.tick_pc = "idle", !.tick_result = "ok"]

\* What is recorded of an invocation: the proc, the pass it was made in,
\* the continuation c it was handed and the TickResult r it returned.
Invocation(rt, p, c, r) ==
  [proc |-> p, pass |-> rt.pass_count, continuation |-> c, error |-> r.error,
   progress_made |-> r.progress_made, tick_complete |-> r.tick_complete]

\* Mutant: an invocation that returns an error discards the continuations
\* of all procs.
Invoke_ErrorPoisons(rt, n, p, c) ==
  LET r == ProcJitTick(n.procs[rt.proc_jits[p].proc], c, rt.queues)
  IN IF r.error
     THEN [rt EXCEPT !.queues = r.queues,
                     !.continuations = InitContinuations(n),
                     !.sent_total[p] = rt.sent_total[p] + r.sent,
                     !.invoked = Append(rt.invoked, Invocation(rt, p, c, r)),
                     !.tick_pc = "idle", !.tick_result = "error"]
     ELSE [rt EXCEPT !.queues = r.queues,
                     !.continuations[p] = r.continuation,
                     !.sent_total[p] = rt.sent_total[p] + r.sent,
                     !.ticks_done[p] = rt.ticks_done[p]
                                       + (IF r.tick_complete THEN 1 ELSE 0),
                     !.progress_made = rt.progress_made \/ r.progress_made,
                     !.completed_procs =
                        IF r.tick_complete THEN rt.completed_procs \cup {p}
                        ELSE rt.completed_procs,
                     !.invoked = Append(rt.invoked, Invocation(rt, p, c, r)),
                     !.proc_i = rt.proc_i + 1]

\* Mutant: the error of an invocation is kept for the end of the Tick and
\* the pass goes on with the next proc.
Invoke_ErrorContinues(rt, n, p, c) ==
  LET r == ProcJitTick(n.procs[rt.proc_jits[p].proc], c, rt.queues)
  IN [rt EXCEPT !.queues = r.queues,
                !.continuations[p] = r.continuation,
                !.sent_total[p] = rt.sent_total[p] + r.sent,
                !.ticks_done[p] = rt.ticks_done[p]
                                  + (IF r.tick_complete THEN 1 ELSE 0),
                !.progress_made = rt.progress_made \/ r.progress_made,
                !.completed_procs =
                   IF r.tick_complete THEN rt.completed_procs \cup {p}
                   ELSE rt.completed_procs,
                !.invoked = Append(rt.invoked, Invocation(rt, p, c, r)),
                !.tick_result = IF r.error THEN "error" ELSE rt.tick_result,
                !.proc_i = rt.proc_i + 1]

\* Mutant: the state an invocation leaves is stored for every proc.
Invoke_SharedState(rt, n, p, c) ==
  LET r == ProcJitTick(n.procs[rt.proc_jits[p].proc], c, rt.queues)
  IN [rt EXCEPT !.queues = r.queues,
                !.continuations =
                   [q \in DOMAIN rt.continuations |->
                      IF q = p THEN r.continuation
                      ELSE [rt.continuations[q] EXCEPT
                              !.state = r.continuation.state]],
                !.sent_total[p] = rt.sent_total[p] + r.sent,
                !.ticks_done[p] = rt.ticks_done[p]
                                  + (IF r.tick_complete THEN 1 ELSE 0),
                !.progress_made = rt.progress_made \/ r.progress_made,
                !.completed_procs =
                   IF r.tick_complete THEN rt.completed_procs \cup {p}
                   ELSE rt.completed_procs,
                !.invoked = Append(rt.invoked, Invocation(rt, p, c, r)),
                !.tick_pc = IF r.error THEN "idle" ELSE rt.tick_pc,
                !.tick_result = IF r.error THEN "error" ELSE rt.tick_result,
                !.proc_i = rt.proc_i + (IF r.error THEN 0 ELSE 1)]

\* The effect of invoking proc p with continuation c (lines 205-211); r is
\* the TickResult of the invocation.
Invoke(rt, n, p, c) ==
  CHOOSE after \in
    {IF r.error
     THEN [rt EXCEPT !.queues = r.queues,
                     !.continuations[p] = r.continuation,
                     !.sent_total[p] = rt.sent_total[p] + r.sent,
                     !.invoked = Append(rt.invoked, Invocation(rt, p, c, r)),
                     !.tick_pc = "idle", !.tick_result = "error"]
     ELSE [rt EXCEPT !.queues = r.queues,
                     !.continuations[p] = r.continuation,
                     !.sent_total[p] = rt.sent_total[p] + r.sent,
                     !.resumed =
                        IF /\ c.blocked
                           /\ r.progress_made
                           /\ \E i \in 1..Len(n.procs[p].ops) :
                                 i < c.pc /\ n.procs[p].ops[i].op = "send"
                        THEN rt.resumed \cup {p}
                        ELSE rt.resumed,
                     !.ticks_done[p] = rt.ticks_done[p]
                                       + (IF r.tick_complete THEN 1 ELSE 0),
                     !.progress_made = rt.progress_made \/ r.progress_made,
                     !.completed_procs =
                        IF r.tick_complete THEN rt.completed_procs \cup {p}
                        ELSE rt.completed_procs,
                     !.invoked = Append(rt.invoked, Invocation(rt, p, c, r)),
                     !.proc_i = rt.proc_i + 1]
       : r \in {ProcJitTick(n.procs[rt.proc_jits[p].proc], c, rt.queues)}} : TRUE

\* Mutant: every invocation starts the body again from its first operation.
TickFor_Restart(rt, n) ==
  IF rt.proc_i > Len(n.order)
  THEN [rt EXCEPT !.tick_pc = "while", !.last_progress = rt.progress_made]
  ELSE LET p == n.order[rt.proc_i]
       IN IF p \in rt.completed_procs
          THEN [rt EXCEPT !.proc_i = rt.proc_i + 1]
          ELSE Invoke(rt, n, p, [rt.continuations[p] EXCEPT !.pc = 1])

\* Mutant: a proc that completed its tick is invoked again in later passes.
TickFor_NoSkip(rt, n) ==
  IF rt.proc_i > Len(n.order)
  THEN [rt EXCEPT !.tick_pc = "while", !.last_progress = rt.progress_made]
  ELSE LET p == n.order[rt.proc_i]
       IN Invoke(rt, n, p, rt.continuations[p])

\* Mutant: progress reported by an invocation is not accumulated.
TickFor_DropProgress(rt, n) ==
  IF rt.proc_i > Len(n.order)
  THEN [rt EXCEPT !.tick_pc = "while", !.last_progress = rt.progress_made]
  ELSE LET p == n.order[rt.proc_i]
       IN IF p \in rt.completed_procs
          THEN [rt EXCEPT !.proc_i = rt.proc_i + 1]
          ELSE LET r == Invoke(rt, n, p, rt.continuations[p])
               IN IF r.tick_pc = "idle" THEN r
                  ELSE [r EXCEPT !.progress_made =
                                    p \in r.completed_procs]

\* Tick, lines 201-212: one iteration of the for loop over the procs in
\* declaration order, or its end.
TickFor(rt, n) ==
  IF rt.proc_i > Len(n.order)
  THEN [rt EXCEPT !.tick_pc = "while", !.last_progress = rt.progress_made]
  ELSE LET p == n.order[rt.proc_i]
       IN IF p \in rt.completed_procs
          THEN [rt EXCEPT !.proc_i = rt.proc_i + 1]
          ELSE Invoke(rt, n, p, rt.continuations[p])

TickStep(rt, n) ==
  IF rt.tick_pc = "while" THEN TickWhile(rt, n) ELSE TickFor(rt, n)

\* A whole call of Tick as a function: the steps are applied until Tick
\* returns (fuel bounds the evaluation).
RECURSIVE RunTick(_, _, _)
RunTick(rt, n, fuel) ==
  IF rt.tick_pc = "idle" \/ fuel = 0 THEN rt
  ELSE RunTick(TickStep(rt, n), n, fuel - 1)

\* Mutant: the channels are seeded again with their initial values.
ResetStateOf_Reseed(rt, n) ==
  [rt EXCEPT !.continuations = InitContinuations(n),
             !.queues = SeedChannels(Unseeded(rt.queues), n, 1).queues]

\* Mutant: the queues are made anew, empty.
ResetStateOf_NewQueues(rt, n) ==
  [rt EXCEPT !.continuations = InitContinuations(n),
             !.queues = CreateThreadSafe(n)]

\* Mutant: the entry points are made anew as well.
ResetStateOf_Recompile(rt, n) ==
  [rt EXCEPT !.continuations = InitContinuations(n),
             !.proc_jits =
                [p \in DOMAIN rt.proc_jits |->
                   ProcJitCreate(p, rt.queue_mgr,
                                 rt.proc_jits[p].ordinal + Len(n.order))]]

\* SerialProcRuntime::ResetState: every proc gets a new continuation from
\* its entry point (proc_jits_.at(proc)->NewContinuation()).
ResetStateOf(rt, n) ==
  [rt EXCEPT !.continuations =
                [p \in Procs(n) |->
                   NewContinuation(n.procs[rt.proc_jits[p].proc])]]

\* SerialProcRuntime::ProcState: continuations_.at(proc) stops the program
\* when proc has no continuation; there is no error status for it.
ProcStateOf(conts, p) ==
  IF p \notin DOMAIN conts THEN [outcome |-> "fatal", state |-> 0]
  ELSE [outcome |-> "ok", state |-> conts[p].state]

\* The class of the queue CreateThreadSafe makes for channel c (line 110).
QueueClass(n, c) == "ThreadSafeJitChannelQueue"

\* dynamic_cast<JitChannelQueue*>, line 129.
IsJitChannelQueue(class) ==
  class \in {"ThreadSafeJitChannelQueue", "ThreadUnsafeJitChannelQueue"}

\* ChannelQueueManager::GetQueue: a channel the manager has no queue for is
\* a fatal error.
GetQueueOf(qs, c) == IF c \in DOMAIN qs THEN "ok" ELSE "fatal"

\* Mutant: a queue that is not a JIT queue is handed out all the same.
GetJitQueueOf_NoCheck(qs, classes, c) == GetQueueOf(qs, c)

\* JitChannelQueueManager::GetJitQueue: XLS_CHECK_NE(queue, nullptr) stops
\* the program when the queue found is not a JitChannelQueue.
GetJitQueueOf(qs, classes, c) ==
  IF GetQueueOf(qs, c) = "fatal" THEN "fatal"
  ELSE IF ~IsJitChannelQueue(classes[c]) THEN "fatal"
  ELSE "ok"

(***************************************************************************)
(* Actions of the runtime.  Enqueue, dequeue and ResetState are calls made *)
(* by the owner of the runtime between Tick calls.                         *)
(***************************************************************************)
SetRt(r) ==
  /\ queues' = r.queues
  /\ continuations' = r.continuations
  /\ proc_jits' = r.proc_jits
  /\ queue_mgr' = r.queue_mgr
  /\ tick_pc' = r.tick_pc
  /\ progress_made' = r.progress_made
  /\ completed_procs' = r.completed_procs
  /\ proc_i' = r.proc_i
  /\ tick_result' = r.tick_result
  /\ pass_count' = r.pass_count
  /\ sent_total' = r.sent_total
  /\ ticks_done' = r.ticks_done
  /\ resumed' = r.resumed
  /\ last_progress' = r.last_progress
  /\ invoked' = r.invoked

\* Number of send operations of a body before position pc.
NumSendsBefore(body, pc) ==
  Cardinality({i \in 1..Len(body.ops) : i < pc /\ body.ops[i].op = "send"})

Arg(id, bytes) == [id |-> id, bytes |-> bytes]

\* What a call that dereferences a null queue manager can do: end the
\* program, or return either status having reached no queue.
UndefinedOutcomes == {"fatal", "ok", "error"}

\* The state after SerialProcRuntime::Create(n) has returned, or has ended
\* the program.
RuntimeInitFor(n) ==
  \E created \in {SerialProcRuntimeCreate(n)} :
  \E outcome \in IF created.status = "undefined" THEN UndefinedOutcomes
                  ELSE {created.status} :
  /\ net = n
  /\ queues = created.object.queues
  /\ continuations = created.object.continuations
  /\ proc_jits = created.object.proc_jits
  /\ queue_mgr = created.object.queue_mgr
  /\ tick_pc = IF outcome = "fatal" THEN "aborted"
               ELSE IF outcome = "ok" /\ created.runtime THEN "idle"
               ELSE "none"
  /\ progress_made = FALSE
  /\ completed_procs = {}
  /\ proc_i = 1
  /\ tick_result = "none"
  /\ last_op = "create"
  /\ call_status = outcome
  /\ call_arg = Arg(0, 0)
  /\ pre_tick = [queues |-> created.object.queues,
                 continuations |-> created.object.continuations,
                 result |-> "none"]
  /\ pre_reset = [queues |-> created.object.queues,
                  continuations |-> created.object.continuations]
  /\ pass_count = 0
  /\ tick_count = 0
  /\ ext_count = 0
  /\ sent_total = [p \in Procs(n) |-> 0]
  /\ ticks_done = [p \in Procs(n) |-> 0]
  /\ abandoned = [p \in Procs(n) |-> 0]
  /\ resumed = {}
  /\ ext_enq = [c \in Chans |-> 0]
  /\ last_progress = FALSE
  /\ invoked = <<>>

\* The codec value of the specifications that pack nothing.
NoCodec == [type |-> BitsType(8), value |-> 0, blitted |-> FALSE,
            buffer |-> <<>>, unpacked |-> <<>>, enqueued |-> 0,
            dequeued |-> <<>>]

QueueInitFor(size, single) ==
  /\ byte_queue = ByteQueueCtor(size, single)
  /\ written = <<>>
  /\ readlog = <<>>
  /\ last_read_ok = "none"
  /\ resizes = 0
  /\ wrapped_resize = FALSE
  /\ access = {}
  /\ unsafe_queue = ByteQueueCtor(size, single)
  /\ last_results = [safe |-> [ok |-> FALSE, value |-> 0, size |-> 0],
                     unsafe |-> [ok |-> FALSE, value |-> 0, size |-> 0]]

\* Threads using the shared queue, and the state before any of them runs.
Threads == {1, 2}

ThreadInitFor(progs) ==
  /\ shared_queue = ByteQueueCtor(ChanTypeBytes, FALSE)
  /\ mutex = 0
  /\ threads = [t \in Threads |->
                  [prog |-> progs[t], at |-> 1, step |-> "idle",
                   seen |-> ByteQueueCtor(ChanTypeBytes, FALSE),
                   results |-> <<>>]]

NoCalls == [t \in Threads |-> <<>>]

Tick_Begin ==
  /\ tick_pc = "idle"
  /\ tick_count < MaxTicks
  /\ SetRt(TickEnter(Rt))
  /\ pre_tick' = [queues |-> queues, continuations |-> continuations,
                  result |-> tick_result]
  /\ tick_count' = tick_count + 1
  /\ UNCHANGED <<net, last_op, call_status, call_arg, pre_reset, ext_count,
                 abandoned, ext_enq>>
  /\ UNCHANGED <<queue_vars, thread_vars>>

\* A step of a running Tick; last_op records the return of Tick.
TickAdvance(r) ==
  /\ SetRt(r)
  /\ last_op' = IF r.tick_pc = "idle" THEN "tick" ELSE last_op
  /\ UNCHANGED <<net, call_status, call_arg, pre_tick, pre_reset, tick_count,
                 ext_count, abandoned, ext_enq>>
  /\ UNCHANGED <<queue_vars, thread_vars>>

Tick_PassBegin ==
  /\ tick_pc = "while"
  /\ TickWhile(Rt, net).tick_pc # "idle"
  /\ TickAdvance(TickWhile(Rt, net))

Tick_Return ==
  /\ tick_pc = "while"
  /\ TickWhile(Rt, net).tick_pc = "idle"
  /\ TickAdvance(TickWhile(Rt, net))

Tick_PassEnd ==
  /\ tick_pc = "for"
  /\ proc_i > Len(net.order)
  /\ TickAdvance(TickFor(Rt, net))

Tick_Skip ==
  /\ tick_pc = "for"
  /\ proc_i <= Len(net.order)
  /\ net.order[proc_i] \in completed_procs
  /\ TickAdvance(TickFor(Rt, net))

Tick_Invoke ==
  /\ tick_pc = "for"
  /\ proc_i <= Len(net.order)
  /\ net.order[proc_i] \notin completed_procs
  /\ TickFor(Rt, net).tick_pc # "idle"
  /\ TickAdvance(TickFor(Rt, net))

Tick_InvokeError ==
  /\ tick_pc = "for"
  /\ proc_i <= Len(net.order)
  /\ net.order[proc_i] \notin completed_procs
  /\ TickFor(Rt, net).tick_pc = "idle"
  /\ TickAdvance(TickFor(Rt, net))

\* A value that needs both bytes of the channel type.
ExtValues == {300}

\* Sizes of the types of the values a caller passes: the channel's type and
\* a type of another shape.
ExtShapes == {ChanTypeBytes, 2 * ChanTypeBytes}

\* The enqueue calls made from outside: a value of the channel's type on
\* any channel, a value of another shape on channel 1.
ExtEnqueues ==
  {[id |-> c, value |-> v, bytes |-> b] :
     c \in Chans, v \in ExtValues, b \in ExtShapes} \
  {[id |-> c, value |-> v, bytes |-> b] :
     c \in Chans \ {1}, v \in ExtValues, b \in ExtShapes \ {ChanTypeBytes}}

\* The identities looked up: the first proc (channel) of the package and 0,
\* which names no proc (channel).
LookupIds == {0, 1}

EnqueueValueToChannel(c, v, value_bytes) ==
  /\ queue_mgr # 0
  /\ \E r \in {EnqueueValue(queues, c, v, value_bytes)} :
     /\ tick_pc = "idle"
     /\ ext_count < MaxExtOps
     /\ queues' = r.queues
     /\ call_status' = r.status
     /\ call_arg' = Arg(c, value_bytes)
     /\ ext_enq' = [ext_enq EXCEPT
                      ![c] = ext_enq[c] + (IF r.status = "ok" THEN 1 ELSE 0)]
     /\ ext_count' = ext_count + 1
     /\ last_op' = "enqueue"
     /\ UNCHANGED <<net, continuations, tick_pc, progress_made,
                    completed_procs, proc_i, tick_result, pre_tick, pre_reset,
                    pass_count, tick_count, sent_total, ticks_done, abandoned,
                    resumed, last_progress, invoked, proc_jits,
                    queue_mgr>>
     /\ UNCHANGED <<queue_vars, thread_vars>>

DequeueValueFromChannel(c) ==
  /\ queue_mgr # 0
  /\ tick_pc = "idle"
  /\ ext_count < MaxExtOps
  /\ queues' = [queues EXCEPT
                  ![c] = ReadValueFromQueue(ChanTypeBytes, queues[c]).queue]
  /\ call_status' = "ok"
  /\ call_arg' = Arg(0, 0)
  /\ ext_count' = ext_count + 1
  /\ last_op' = "dequeue"
  /\ UNCHANGED <<net, continuations, tick_pc, progress_made, completed_procs,
                 proc_i, tick_result, pre_tick, pre_reset, pass_count,
                 tick_count, sent_total, ticks_done, abandoned,
                 resumed, ext_enq, last_progress, invoked, proc_jits,
                 queue_mgr>>
  /\ UNCHANGED <<queue_vars, thread_vars>>

\* A lookup that ends in a fatal check ends the program.
Lookup(op, id, outcome) ==
  /\ tick_pc = "idle"
  /\ ext_count < MaxExtOps
  /\ tick_pc' = IF outcome = "fatal" THEN "aborted" ELSE "idle"
  /\ call_status' = outcome
  /\ call_arg' = Arg(id, 0)
  /\ ext_count' = ext_count + 1
  /\ last_op' = op
  /\ UNCHANGED <<net, queues, continuations, progress_made, completed_procs,
                 proc_i, tick_result, pre_tick, pre_reset, pass_count,
                 tick_count, sent_total, ticks_done, abandoned, resumed,
                 ext_enq, last_progress, invoked, proc_jits, queue_mgr>>
  /\ UNCHANGED <<queue_vars, thread_vars>>

\* p is a proc of the package or 0, a proc that is not part of it.
ProcState(p) ==
  Lookup("proc_state", p, ProcStateOf(continuations, p).outcome)

\* c is a channel of the package or 0, a channel that is not part of it.
GetJitQueue(c) ==
  /\ queue_mgr # 0
  /\ Lookup("get_jit_queue", c,
            GetJitQueueOf(queues, [d \in Chans |-> QueueClass(net, d)], c))

ResetState ==
  /\ tick_pc = "idle"
  /\ ext_count < MaxExtOps
  /\ SetRt(ResetStateOf(Rt, net))
  /\ pre_reset' = [queues |-> queues, continuations |-> continuations]
  /\ abandoned' = [p \in Procs(net) |->
                     abandoned[p]
                     + NumSendsBefore(net.procs[p], continuations[p].pc)]
  /\ ext_count' = ext_count + 1
  /\ last_op' = "reset"
  /\ call_status' = "ok"
  /\ call_arg' = Arg(0, 0)
  /\ UNCHANGED <<net, pre_tick, tick_count, ext_enq>>
  /\ UNCHANGED <<queue_vars, thread_vars>>

Init ==
  /\ \E n \in Networks : RuntimeInitFor(n)
  /\ QueueInitFor(ChanTypeBytes, FALSE)
  /\ codec = NoCodec
  /\ ThreadInitFor(NoCalls)

Next ==
  \/ Tick_Begin
  \/ Tick_PassBegin
  \/ Tick_Return
  \/ Tick_PassEnd
  \/ Tick_Skip
  \/ Tick_Invoke
  \/ Tick_InvokeError
  \/ \E call \in ExtEnqueues :
        EnqueueValueToChannel(call.id, call.value, call.bytes)
  \/ \E c \in Chans : DequeueValueFromChannel(c)
  \/ ResetState
  \/ \E p \in LookupIds : ProcState(p)
  \/ \E c \in LookupIds : GetJitQueue(c)

Spec == Init /\ [][Next]_vars

(***************************************************************************)
(* Actions on the single queue under test.                                 *)
(***************************************************************************)
ElementSizes == {2, 40, 130}
\* The k-th write carries a value of its own, so that a lost, duplicated or
\* misplaced element shows in what is read back.
QueueValues == {250 + 3 * Len(written)}

\* A single-value queue never runs out of data, so its reads are bounded too.
QueueBudget ==
  byte_queue.is_single_value => Len(written) + Len(readlog) < MaxSingleOps

\* What a call returned (ok = FALSE for std::nullopt) and the size reported
\* afterwards.
Result(ok, value, size) == [ok |-> ok, value |-> value, size |-> size]

\* The growth made by a write to the queue under test.
NoteResize ==
  /\ resizes' = resizes
       + (IF /\ ~byte_queue.is_single_value
             /\ byte_queue.bytes_used = byte_queue.max_byte_count
          THEN 1 ELSE 0)
  /\ wrapped_resize' =
       (wrapped_resize \/ (/\ ~byte_queue.is_single_value
                           /\ byte_queue.bytes_used = byte_queue.max_byte_count
                           /\ byte_queue.read_index # 0))

\* A typed enqueue (EnqueueValueToChannel -> WriteInternal).
QueueWrite(v) ==
  /\ Len(written) < MaxWrites
  /\ QueueBudget
  /\ byte_queue' = ThreadSafeWriteInternal(v, byte_queue.channel_element_size,
                                           byte_queue)
  /\ unsafe_queue' = ThreadUnsafeWriteInternal(
                        v, unsafe_queue.channel_element_size, unsafe_queue)
  /\ last_results' =
       [safe |-> Result(TRUE, v, ThreadSafeGetSizeInternal(byte_queue')),
        unsafe |-> Result(TRUE, v, ThreadUnsafeGetSizeInternal(unsafe_queue'))]
  /\ written' = Append(written, v)
  /\ access' = access \cup {"typed_enqueue"}
  /\ NoteResize
  /\ UNCHANGED <<readlog, last_read_ok, codec>>
  /\ UNCHANGED <<runtime_vars, thread_vars>>

\* A typed dequeue (DequeueValueFromChannel -> ReadInternal).
QueueRead ==
  LET r == ThreadSafeReadInternal(byte_queue.channel_element_size, byte_queue)
      u == ThreadUnsafeReadInternal(unsafe_queue.channel_element_size,
                                    unsafe_queue)
  IN /\ QueueBudget
     /\ byte_queue' = r.queue
     /\ unsafe_queue' = u.queue
     /\ last_results' =
          [safe |-> Result(r.ok, r.value, ThreadSafeGetSizeInternal(r.queue)),
           unsafe |-> Result(u.ok, u.value,
                             ThreadUnsafeGetSizeInternal(u.queue))]
     /\ readlog' = IF r.ok THEN Append(readlog, r.value) ELSE readlog
     /\ last_read_ok' = IF r.ok THEN "value" ELSE "nullopt"
     /\ access' = access \cup {"typed_dequeue"}
     /\ UNCHANGED <<written, resizes, wrapped_resize, codec>>
     /\ UNCHANGED <<runtime_vars, thread_vars>>

\* The packed bytes a caller of the raw interface hands over for value v:
\* low byte first, in a buffer of one element.
RawBuffer(v, n) ==
  [i \in 1..n |-> IF i = 1 THEN v % 256
                  ELSE IF i = 2 /\ n >= 2 THEN (v \div 256) % 256 ELSE 0]

\* A raw enqueue (EnqueueBufferToChannel).
QueueWriteRaw(v) ==
  LET buffer == RawBuffer(v, byte_queue.channel_element_size)
  IN /\ Len(written) < MaxWrites
     /\ QueueBudget
     /\ byte_queue' = EnqueueBuffer(byte_queue, buffer)
     /\ unsafe_queue' = EnqueueBuffer(unsafe_queue, buffer)
     /\ last_results' =
          [safe |-> Result(TRUE, v, ThreadSafeGetSizeInternal(byte_queue')),
           unsafe |-> Result(TRUE, v,
                             ThreadUnsafeGetSizeInternal(unsafe_queue'))]
     /\ written' = Append(written, v)
     /\ access' = access \cup {"raw_enqueue"}
     /\ NoteResize
     /\ UNCHANGED <<readlog, last_read_ok, codec>>
     /\ UNCHANGED <<runtime_vars, thread_vars>>

\* A raw dequeue (DequeueBufferFromChannel); the bytes received are logged
\* as the value they encode.
QueueReadRaw ==
  LET r == DequeueBuffer(byte_queue, Zeros(byte_queue.channel_element_size))
      u == DequeueBuffer(unsafe_queue,
                         Zeros(unsafe_queue.channel_element_size))
      rv == UnpackBuffer(r.buffer, byte_queue.channel_element_size)
      uv == UnpackBuffer(u.buffer, unsafe_queue.channel_element_size)
  IN /\ QueueBudget
     /\ byte_queue' = r.queue
     /\ unsafe_queue' = u.queue
     /\ last_results' =
          [safe |-> Result(r.ok, IF r.ok THEN rv ELSE 0,
                           ThreadSafeGetSizeInternal(r.queue)),
           unsafe |-> Result(u.ok, IF u.ok THEN uv ELSE 0,
                             ThreadUnsafeGetSizeInternal(u.queue))]
     /\ readlog' = IF r.ok THEN Append(readlog, rv) ELSE readlog
     /\ last_read_ok' = IF r.ok THEN "value" ELSE "nullopt"
     /\ access' = access \cup {"raw_dequeue"}
     /\ UNCHANGED <<written, resizes, wrapped_resize, codec>>
     /\ UNCHANGED <<runtime_vars, thread_vars>>

QueueInit ==
  /\ \E size \in ElementSizes, single \in BOOLEAN : QueueInitFor(size, single)
  /\ codec = NoCodec
  /\ RuntimeInitFor(WithOrder(NetSeeded, <<1>>))
  /\ ThreadInitFor(NoCalls)

QueueNext ==
  \/ \E v \in QueueValues : QueueWrite(v)
  \/ QueueRead
  \/ \E v \in QueueValues : QueueWriteRaw(v)
  \/ QueueReadRaw

SpecQueue == QueueInit /\ [][QueueNext]_vars

(***************************************************************************)
(* The value codec on its own and through a queue.  The state after        *)
(* construction holds one value of one structured type and an empty queue  *)
(* whose element is that type; the value is packed into a buffer of the    *)
(* type's size and unpacked again, and it is enqueued and dequeued typed.  *)
(***************************************************************************)
MaxCodecOps == 2

\* The structured types tried, from one bit to nested tuples and arrays.
CodecTypes ==
  {BitsType(1), BitsType(8), BitsType(9), BitsType(24),
   TupleType(<<BitsType(8), BitsType(16)>>),
   TupleType(<<BitsType(1), TupleType(<<BitsType(9), BitsType(8)>>)>>),
   ArrayType(2, BitsType(8)),
   ArrayType(2, TupleType(<<BitsType(8), BitsType(1)>>)),
   TupleType(<<ArrayType(2, BitsType(9)), BitsType(8)>>)}

\* The values tried of a type.  Bits: the least, the greatest and some
\* between.  Composite types: no two elements of one value are equal, so
\* that an element decoded at another's offset shows.
CodecValues(t) ==
  IF t.kind = "bits"
  THEN {v \in {0, 1, 2, 127, 128, 255, 256, 258, 511, 1000, 33023, 65535,
               65536, 66051, 16777215} : v < 2 ^ t.width}
  ELSE IF t = TupleType(<<BitsType(8), BitsType(16)>>)
  THEN {<<7, 513>>, <<255, 65535>>, <<0, 256>>}
  ELSE IF t = TupleType(<<BitsType(1), TupleType(<<BitsType(9), BitsType(8)>>)>>)
  THEN {<<1, <<300, 17>>>>, <<0, <<511, 255>>>>}
  ELSE IF t = ArrayType(2, BitsType(8))
  THEN {<<1, 2>>, <<255, 0>>}
  ELSE IF t = ArrayType(2, TupleType(<<BitsType(8), BitsType(1)>>))
  THEN {<<<<9, 1>>, <<200, 0>>>>, <<<<0, 0>>, <<255, 1>>>>}
  ELSE {<<<<257, 510>>, 77>>, <<<<1, 256>>, 255>>}

CodecInit ==
  /\ \E t \in CodecTypes, single \in BOOLEAN :
       /\ QueueInitFor(TypeBytes(t), single)
       /\ \E v \in CodecValues(t) :
            codec = [type |-> t, value |-> v, blitted |-> FALSE,
                     buffer |-> Zeros(TypeBytes(t)), unpacked |-> <<>>,
                     enqueued |-> 0, dequeued |-> <<>>]
  /\ RuntimeInitFor(WithOrder(NetSeeded, <<1>>))
  /\ ThreadInitFor(NoCalls)

\* The variables no step of the codec changes.
codec_frame == <<written, readlog, last_read_ok, resizes, wrapped_resize,
                 access, unsafe_queue, last_results, runtime_vars,
                 thread_vars>>

\* JitRuntime::BlitValueToBuffer into a buffer of the type's size.
Codec_Blit ==
  /\ ~codec.blitted
  /\ codec' = [codec EXCEPT
                 !.blitted = TRUE,
                 !.buffer = BlitTypedValueToBuffer(codec.value, codec.type,
                                                   codec.buffer)]
  /\ UNCHANGED byte_queue
  /\ UNCHANGED codec_frame

\* JitRuntime::UnpackBuffer of the buffer that was packed.
Codec_Unpack ==
  /\ codec.blitted
  /\ Len(codec.unpacked) < MaxCodecOps
  /\ codec' = [codec EXCEPT
                 !.unpacked = Append(@, UnpackTypedBuffer(codec.buffer,
                                                          codec.type))]
  /\ UNCHANGED byte_queue
  /\ UNCHANGED codec_frame

\* A typed enqueue of the value.
Codec_Enqueue ==
  /\ codec.enqueued < MaxCodecOps
  /\ byte_queue' = WriteTypedValueOnQueue(codec.value, codec.type, byte_queue)
  /\ codec' = [codec EXCEPT !.enqueued = @ + 1]
  /\ UNCHANGED codec_frame

\* A typed dequeue; what it returns is kept when it is a value.
Codec_Dequeue ==
  /\ Len(codec.dequeued) < MaxCodecOps
  /\ \E r \in {ReadTypedValueFromQueue(codec.type, byte_queue)} :
       /\ byte_queue' = r.queue
       /\ codec' = [codec EXCEPT
                      !.dequeued = IF r.ok THEN Append(@, r.value) ELSE @]
  /\ UNCHANGED codec_frame

CodecNext ==
  \/ Codec_Blit
  \/ Codec_Unpack
  \/ Codec_Enqueue
  \/ Codec_Dequeue

SpecCodec == CodecInit /\ [][CodecNext]_vars

(* A call takes the queue's mutex, runs WriteInternal or ReadInternal and  *)
(* releases the mutex.  The Internal methods are not atomic: they read the *)
(* fields of byte_queue_ and write them back later.                        *)
(***************************************************************************)
EnqueueCall(v) == [op |-> "enqueue", value |-> v]
DequeueCall == [op |-> "dequeue", value |-> 0]

\* The calls of thread t: every sequence of MaxCalls calls; the values a
\* thread enqueues identify the thread and the call.
ThreadPrograms(t) ==
  {[i \in 1..MaxCalls |->
      IF k[i] = "enqueue" THEN EnqueueCall(10 * t + i) ELSE DequeueCall] :
     k \in [1..MaxCalls -> {"enqueue", "dequeue"}]}

CurrentCall(t) == threads[t].prog[threads[t].at]

\* Mutant: the mutex is taken even when another thread holds it.
CanLock_Always(m) == TRUE

CanLock(m) == m = 0

T_Lock(t) ==
  /\ threads[t].at <= Len(threads[t].prog)
  /\ threads[t].step = "idle"
  /\ CanLock(mutex)
  /\ mutex' = t
  /\ threads' = [threads EXCEPT ![t].step = "locked"]
  /\ UNCHANGED shared_queue
  /\ UNCHANGED <<queue_vars, runtime_vars>>

T_Load(t) ==
  /\ threads[t].step = "locked"
  /\ threads' = [threads EXCEPT ![t].step = "loaded",
                                ![t].seen = shared_queue]
  /\ UNCHANGED <<shared_queue, mutex>>
  /\ UNCHANGED <<queue_vars, runtime_vars>>

T_Write(t) ==
  /\ threads[t].step = "loaded"
  /\ CurrentCall(t).op = "enqueue"
  /\ shared_queue' = ThreadSafeWriteInternal(CurrentCall(t).value,
                                             ChanTypeBytes, threads[t].seen)
  /\ threads' = [threads EXCEPT
                    ![t].step = "stored",
                    ![t].results = Append(@, [ok |-> TRUE, value |-> 0])]
  /\ UNCHANGED mutex
  /\ UNCHANGED <<queue_vars, runtime_vars>>

T_Read(t) ==
  LET r == ThreadSafeReadInternal(ChanTypeBytes, threads[t].seen)
  IN /\ threads[t].step = "loaded"
     /\ CurrentCall(t).op = "dequeue"
     /\ shared_queue' = r.queue
     /\ threads' = [threads EXCEPT
                       ![t].step = "stored",
                       ![t].results = Append(@, [ok |-> r.ok,
                                                 value |-> r.value])]
     /\ UNCHANGED mutex
     /\ UNCHANGED <<queue_vars, runtime_vars>>

T_Unlock(t) ==
  /\ threads[t].step = "stored"
  /\ mutex' = 0
  /\ threads' = [threads EXCEPT ![t].step = "idle",
                                ![t].at = threads[t].at + 1]
  /\ UNCHANGED shared_queue
  /\ UNCHANGED <<queue_vars, runtime_vars>>

ThreadInit ==
  /\ \E progs \in [Threads -> UNION {ThreadPrograms(t) : t \in Threads}] :
        /\ \A t \in Threads : progs[t] \in ThreadPrograms(t)
        /\ ThreadInitFor(progs)
  /\ QueueInitFor(ChanTypeBytes, FALSE)
  /\ codec = NoCodec
  /\ RuntimeInitFor(WithOrder(NetSeeded, <<1>>))

ThreadNext ==
  \/ \E t \in Threads : T_Lock(t)
  \/ \E t \in Threads : T_Load(t)
  \/ \E t \in Threads : T_Write(t)
  \/ \E t \in Threads : T_Read(t)
  \/ \E t \in Threads : T_Unlock(t)

SpecThreads == ThreadInit /\ [][ThreadNext]_vars

(***************************************************************************)
(* Properties of the channel queue (checked under SpecQueue).              *)
(***************************************************************************)

\* C1: FIFO order.  On a FIFO queue the values read so far, followed by the
\* values that further reads return until the queue reports no data, are
\* exactly the values written, in write order; so N reads after N writes
\* return the N values in enqueue order and every successful read returns
\* the oldest write not yet read.
C1_FifoOrder ==
  ~byte_queue.is_single_value =>
     /\ readlog \o Contents(byte_queue) = written
     /\ Size(byte_queue) = Len(written) - Len(readlog)

C1_Witness ==
  /\ ~byte_queue.is_single_value
  /\ Len(written) >= 5
  /\ Len(readlog) >= 3
  /\ Contents(byte_queue) # <<>>

\* C2: capacity growth preserves order.  A write that finds the FIFO store
\* full (whatever the read index, wrapped data included) grows the store and
\* appends its element behind the unread ones: what can be read afterwards
\* is what could be read before, in the same order, followed by the new
\* element.
C2_GrowthPreservesOrder ==
  [][(/\ ~byte_queue.is_single_value
      /\ byte_queue.bytes_used = byte_queue.max_byte_count
      /\ Len(written') = Len(written) + 1)
     => /\ Contents(byte_queue') =
             Append(Contents(byte_queue), written'[Len(written')])
        /\ Len(byte_queue'.circular_buffer) =
             2 * Len(byte_queue.circular_buffer)]_vars

C2_Witness ==
  /\ wrapped_resize
  /\ resizes >= 2
  /\ Len(readlog) >= 1
  /\ Len(Contents(byte_queue)) >= 3

\* C3 as stated: the ring equation holds for every ByteQueue, single-value
\* queues included.
C3_Original ==
  /\ byte_queue.bytes_used <= byte_queue.max_byte_count
  /\ byte_queue.write_index =
       (byte_queue.read_index + byte_queue.bytes_used)
       % byte_queue.max_byte_count

\* C3 (amended): ring-buffer invariant.  On a FIFO ByteQueue bytes_used <=
\* max_byte_count and write_index = (read_index + bytes_used) mod
\* max_byte_count in every reachable state; on a single-value ByteQueue both
\* indices stay 0 and bytes_used is 0 or one allocated element.
C3_RingInvariant ==
  IF byte_queue.is_single_value
  THEN /\ byte_queue.read_index = 0
       /\ byte_queue.write_index = 0
       /\ byte_queue.bytes_used \in {0, byte_queue.allocated_element_size}
  ELSE /\ byte_queue.bytes_used <= byte_queue.max_byte_count
       /\ byte_queue.write_index =
            (byte_queue.read_index + byte_queue.bytes_used)
            % byte_queue.max_byte_count

C3_Witness ==
  /\ ~byte_queue.is_single_value
  /\ resizes >= 1
  /\ byte_queue.bytes_used > 0
  /\ byte_queue.write_index < byte_queue.read_index

\* An output buffer with recognisable contents.
Sentinel(n) == [i \in 1..n |-> 255]

\* C11: read on empty.  A read of a FIFO queue that holds no element returns
\* false from Read without writing to the output buffer, returns nullopt to
\* the caller and leaves the queue (read_index, write_index, bytes_used)
\* unchanged; a read of a FIFO queue that holds data returns a value and the
\* size decreases by exactly one element.
C11_ReadOnEmpty ==
  [][(~byte_queue.is_single_value /\ written' = written)
     => IF byte_queue.bytes_used = 0
        THEN /\ last_read_ok' = "nullopt"
             /\ readlog' = readlog
             /\ byte_queue' = byte_queue
             /\ LET r == Read(byte_queue,
                              Sentinel(byte_queue.channel_element_size))
                IN /\ ~r.ok
                   /\ r.buffer = Sentinel(byte_queue.channel_element_size)
        ELSE /\ last_read_ok' = "value"
             /\ Len(readlog') = Len(readlog) + 1
             /\ Size(byte_queue') = Size(byte_queue) - 1]_vars

C11_Witness ==
  /\ ~byte_queue.is_single_value
  /\ last_read_ok = "nullopt"
  /\ Len(readlog) >= 2
  /\ byte_queue.read_index # 0
  /\ byte_queue.read_index = byte_queue.write_index

\* C12: SingleValue overwrite.  Every read of a single-value queue that was
\* written at least once returns the most recent write (after writes v1, v2
\* a read returns v2, not v1), and the value stays readable.
C12_SingleValueOverwrite ==
  [][(byte_queue.is_single_value /\ written' = written /\ written # <<>>)
     => /\ last_read_ok' = "value"
        /\ readlog' = Append(readlog, written[Len(written)])
        /\ Len(written) >= 2 => readlog'[Len(readlog')] # written[1]
        /\ Size(byte_queue') = 1]_vars

C12_Witness ==
  /\ byte_queue.is_single_value
  /\ Len(written) >= 2
  /\ Len(readlog) >= 2
  /\ readlog[Len(readlog)] = written[Len(written)]
  /\ readlog[Len(readlog) - 1] = written[Len(written)]
  /\ written[1] # written[Len(written)]

\* C14: raw and typed access share one order.  On a FIFO queue written by
\* typed and raw enqueues in any interleaving, every dequeue, typed or raw,
\* that finds data returns the oldest element not yet dequeued in the one
\* overall enqueue order, and removes exactly that element.
C14_RawTypedOneOrder ==
  [][(/\ ~byte_queue.is_single_value
      /\ written' = written
      /\ Len(readlog') = Len(readlog) + 1)
     => /\ readlog'[Len(readlog')] = written[Len(readlog) + 1]
        /\ Contents(byte_queue') = Tail(Contents(byte_queue))
        /\ readlog' \o Contents(byte_queue') = written]_vars

C14_Witness ==
  /\ ~byte_queue.is_single_value
  /\ access = {"typed_enqueue", "raw_enqueue", "typed_dequeue", "raw_dequeue"}
  /\ Len(readlog) >= 3
  /\ Len(written) >= 4
  /\ last_read_ok = "value"

\* C15: variant equivalence.  A ThreadSafeJitChannelQueue and a
\* ThreadUnsafeJitChannelQueue given the same sequence of write, read and
\* size operations by one thread return the same results and hold the same
\* contents after every step.
C15_VariantEquivalence ==
  /\ last_results.unsafe = last_results.safe
  /\ Contents(unsafe_queue) = Contents(byte_queue)
  /\ ThreadUnsafeGetSizeInternal(unsafe_queue)
       = ThreadSafeGetSizeInternal(byte_queue)

C15_Witness ==
  /\ resizes >= 1
  /\ Len(readlog) >= 2
  /\ last_results.safe.ok
  /\ last_results.unsafe.size >= 2
  /\ last_read_ok = "nullopt"

(***************************************************************************)
(* Properties of the shared queue (checked under SpecThreads).             *)
(***************************************************************************)
\* The orders in which done[t] calls of every thread t can be arranged:
\* sequences of thread names.
Merges(done) ==
  LET RECURSIVE Total(_)
      Total(ts) == IF ts = {} THEN 0
                   ELSE LET t == CHOOSE x \in ts : TRUE
                        IN done[t] + Total(ts \ {t})
  IN {m \in [1..Total(Threads) -> Threads] :
        \A t \in Threads :
           Cardinality({i \in DOMAIN m : m[i] = t}) = done[t]}

\* Runs the calls in the order m, each thread's calls in its own order, on a
\* sequence standing for the queue; TRUE when every call returns what the
\* thread observed and the sequence ends as the contents of the queue.
RECURSIVE Replay(_, _, _, _)
Replay(m, i, idx, fifo) ==
  IF i > Len(m) THEN fifo = Contents(shared_queue)
  ELSE LET t == m[i]
           call == threads[t].prog[idx[t]]
           res == threads[t].results[idx[t]]
           nxt == [idx EXCEPT ![t] = idx[t] + 1]
       IN IF call.op = "enqueue"
          THEN res.ok /\ Replay(m, i + 1, nxt, Append(fifo, call.value))
          ELSE IF fifo = <<>>
               THEN ~res.ok /\ Replay(m, i + 1, nxt, fifo)
               ELSE /\ res.ok
                    /\ res.value = Head(fifo)
                    /\ Replay(m, i + 1, nxt, Tail(fifo))

\* C13: linearizability.  In every state some sequential order of the calls
\* that have returned a result, respecting each thread's own call order,
\* explains every result observed and the contents of the queue: no element
\* is lost, duplicated or torn.
C13_Linearizable ==
  \E m \in Merges([t \in Threads |-> Len(threads[t].results)]) :
     Replay(m, 1, [t \in Threads |-> 1], <<>>)

C13_Witness ==
  /\ \A t \in Threads : threads[t].at > Len(threads[t].prog)
  /\ \E t \in Threads : \E i \in 1..Len(threads[t].prog) :
        /\ threads[t].prog[i].op = "dequeue"
        /\ threads[t].results[i].ok
        /\ threads[t].results[i].value \div 10 # t
  /\ \E t \in Threads : \E i \in 1..Len(threads[t].prog) :
        /\ threads[t].prog[i].op = "dequeue"
        /\ ~threads[t].results[i].ok
  /\ Contents(shared_queue) # <<>>

(***************************************************************************)
(* Properties of the runtime (checked under Spec).                         *)
(***************************************************************************)
TickReturned == tick_pc = "idle" /\ last_op = "tick"

NumSends(body) == NumSendsBefore(body, Len(body.ops) + 1)

\* A body without branches: every tick performs all its operations.
StraightLine(body) == \A i \in 1..Len(body.ops) : body.ops[i].op # "if"

AtFail(p) ==
  /\ continuations[p].pc <= Len(net.procs[p].ops)
  /\ net.procs[p].ops[continuations[p].pc].op = "fail"

\* C4: exactly-once sends across suspension.  For every proc the number of
\* sends it has performed is the number of sends of its body for each tick
\* it completed, plus the sends that precede its continuation point in the
\* tick in progress (plus those of ticks that ResetState discarded): a
\* resumed invocation never repeats a send.
C4_ExactlyOnceSends ==
  \A p \in DOMAIN continuations :
     StraightLine(net.procs[p]) =>
     sent_total[p] = ticks_done[p] * NumSends(net.procs[p])
                     + NumSendsBefore(net.procs[p], continuations[p].pc)
                     + abandoned[p]

C4_Witness ==
  /\ net.name = "starved"
  /\ TickReturned
  /\ tick_count = 2
  /\ 1 \in resumed
  /\ ticks_done[1] = 1
  /\ sent_total[1] = 2

\* A channel that no proc writes, that has no initial value and that nothing
\* was enqueued on from outside.
Orphan(c) ==
  /\ net.chans[c].init = <<>>
  /\ ext_enq[c] = 0
  /\ \A q \in Procs(net) : \A i \in 1..Len(net.procs[q].ops) :
        ~(net.procs[q].ops[i].op = "send" /\ net.procs[q].ops[i].ch = c)

ReceivesFromOrphan(p) ==
  \E i \in 1..Len(net.procs[p].ops) :
     net.procs[p].ops[i].op = "recv" /\ Orphan(net.procs[p].ops[i].ch)

\* Every pass but the last one of a Tick changes some continuation.
PassBound(n) ==
  LET RECURSIVE Sum(_)
      Sum(k) == IF k = 0 THEN 0 ELSE Len(n.procs[k].ops) + 1 + Sum(k - 1)
  IN Sum(Len(n.procs)) + 1

\* C5: deadlock detection without hanging.  A proc that receives from a
\* channel with no writer and no value never completes a tick; whenever a
\* Tick has returned normally it is Blocked; and the pass loop of every Tick
\* ends within a bounded number of passes.
C5_DeadlockDetected ==
  /\ pass_count <= PassBound(net)
  /\ \A p \in Procs(net) :
        ReceivesFromOrphan(p) =>
           /\ ticks_done[p] = 0
           /\ p \notin completed_procs
           /\ (TickReturned /\ tick_result = "ok") => continuations[p].blocked

C5_Witness ==
  /\ net.name = "starved"
  /\ TickReturned
  /\ tick_count = 2
  /\ last_progress = FALSE
  /\ ReceivesFromOrphan(1)
  /\ continuations[1].blocked

\* A Tick has returned without an error leaving some proc incomplete.
Stalled ==
  /\ TickReturned
  /\ tick_result # "error"
  /\ completed_procs # Procs(net)

\* C6 as stated: the result of a stalled Tick differs from the result of a
\* Tick in which every proc completed (OK).
C6_Original == Stalled => tick_result # "ok"

\* C6 (amended): a stalled Tick (zero progress in its last pass, every
\* incomplete proc Blocked) returns OK, the very result of a Tick in which
\* every proc completed; the stall shows only in the continuations.
C6_StallReturnsOk ==
  Stalled =>
     /\ tick_result = "ok"
     /\ last_progress = FALSE
     /\ \A p \in Procs(net) \ completed_procs : continuations[p].blocked

C6_Witness ==
  /\ Stalled
  /\ tick_result = "ok"
  /\ \E p \in Procs(net) : continuations[p].blocked /\ continuations[p].pc > 1

\* C7: Tick returns OK whenever no proc invocation returned an error (no
\* proc stands at a failing operation), whether or not every proc completed.
C7_OkWithoutError ==
  (TickReturned /\ \A p \in Procs(net) : ~AtFail(p)) => tick_result = "ok"

C7_Witness ==
  /\ TickReturned
  /\ tick_result = "ok"
  /\ completed_procs = {}
  /\ \A p \in Procs(net) : ~AtFail(p)
  /\ Len(net.procs) = 2

\* C8: progress termination.  In the network where A sends one value and B
\* receives exactly one, for either declaration order, every Tick ends
\* within three passes with both procs Complete.
C8_ProgressTermination ==
  net.name = "producer_consumer" =>
     /\ pass_count <= 3
     /\ TickReturned => /\ completed_procs = Procs(net)
                        /\ tick_result = "ok"

C8_Witness ==
  /\ net.name = "producer_consumer"
  /\ net.order = <<2, 1>>
  /\ TickReturned
  /\ pass_count = 3
  /\ completed_procs = {1, 2}

\* What C9 compares: completion and continuation of every proc and the
\* contents of every channel queue.
Outcome(rt) ==
  [completed |-> rt.completed_procs,
   continuations |-> rt.continuations,
   contents |-> [c \in Chans |-> Contents(rt.queues[c])]]

Fuel == 80

\* The Tick that has just returned, run again from where it started with
\* the procs visited in order o.
TickInOrder(o) ==
  RunTick(TickEnter([Rt EXCEPT !.queues = pre_tick.queues,
                               !.continuations = pre_tick.continuations,
                               !.tick_pc = "idle"]),
          [net EXCEPT !.order = o], Fuel)

OneReaderOneWriter(n) ==
  \A c \in Chans : \A kind \in {"send", "recv"} :
     Cardinality({p \in Procs(n) :
                    \E i \in 1..Len(n.procs[p].ops) :
                       n.procs[p].ops[i].op = kind
                       /\ n.procs[p].ops[i].ch = c}) <= 1

FifoOnly(n) == \A c \in Chans : ~n.chans[c].single

ResetReturned == tick_pc = "idle" /\ last_op = "reset"

\* C10 as stated: after ResetState every proc is fresh and every channel
\* queue holds exactly its declared initial values, as right after Create.
C10_Original ==
  ResetReturned =>
     /\ continuations = InitContinuations(net)
     /\ \A c \in Chans :
           Contents(queues[c]) = Contents(InitQueues(net)[c])

\* C10 (amended): after ResetState every proc has a fresh continuation and
\* its initial state, and every channel queue is exactly as it was right
\* before ResetState (neither cleared nor seeded again).
C10_ResetKeepsQueues ==
  ResetReturned =>
     /\ continuations = InitContinuations(net)
     /\ queues = pre_reset.queues

C10_Witness ==
  /\ ResetReturned
  /\ tick_count >= 1
  /\ pre_reset.continuations # InitContinuations(net)
  /\ \E c \in Chans : Contents(queues[c]) # Contents(InitQueues(net)[c])

C17_MismatchLeavesQueue ==
  [][(/\ last_op' = "enqueue"
      /\ ext_count' = ext_count + 1
      /\ call_arg'.bytes # ChanTypeBytes)
     => /\ call_status' = "error"
        /\ queues' = queues
        /\ ext_enq' = ext_enq
        /\ tick_pc' = "idle"]_vars

C17_Witness ==
  /\ last_op = "enqueue"
  /\ call_status = "error"
  /\ call_arg.bytes # ChanTypeBytes
  /\ Size(queues[call_arg.id]) >= 2
  /\ tick_count >= 1

ConstructionFails(n) ==
  \/ n.uncompilable # {}
  \/ \E c \in Chans :
        n.chans[c].init # <<>> /\ n.chans[c].init_bytes # ChanTypeBytes

\* C18: construction errors fail the whole build.  When the entry point of
\* some proc cannot be created or some initial value cannot be enqueued,
\* Create returns the error and no runtime: nothing can be called, and
\* otherwise Create returns OK and a runtime.
C18_ConstructionErrorsFail ==
  IF ConstructionFails(net)
  THEN /\ last_op = "create"
       /\ call_status = "error"
       /\ tick_pc = "none"
       /\ tick_count = 0
       /\ ext_count = 0
  ELSE tick_pc # "none"

C18_Witness ==
  /\ net.name = "malformed"
  /\ call_status = "error"
  /\ tick_pc = "none"
  /\ Contents(queues[1]) = <<6>>
  /\ Contents(queues[2]) = <<>>
  /\ Contents(queues[3]) = <<>>

\* Classes a channel queue can have; only the first two are JIT queues.
QueueClasses == {"ThreadSafeJitChannelQueue", "ThreadUnsafeJitChannelQueue",
                 "ChannelQueue"}

\* C20: unknown identity is fatal.  ProcState of a proc and GetJitQueue of a
\* channel that are not part of the network end the program (no status is
\* returned and nothing runs afterwards), while a known identity returns
\* normally; no call other than such a lookup ends the program; and
\* GetJitQueue also ends the program when the queue it finds is not a JIT
\* queue.
C20_UnknownIdentityFatal ==
  [][/\ tick_pc # "aborted"
     /\ last_op' = "proc_state"
        => IF call_arg'.id \in Procs(net)
           THEN call_status' = "ok" /\ tick_pc' # "aborted"
           ELSE call_status' = "fatal" /\ tick_pc' = "aborted"
     /\ last_op' = "get_jit_queue"
        => IF call_arg'.id \in Chans
           THEN call_status' = "ok" /\ tick_pc' # "aborted"
           ELSE call_status' = "fatal" /\ tick_pc' = "aborted"
     /\ tick_pc' = "aborted"
        => /\ last_op' \in {"proc_state", "get_jit_queue"}
           /\ call_status' = "fatal"
     /\ \A c \in Chans : \A class \in QueueClasses :
           GetJitQueueOf(queues, [d \in Chans |-> class], c)
             = IF IsJitChannelQueue(class) THEN "ok" ELSE "fatal"]_vars

C20_Witness ==
  /\ tick_pc = "aborted"
  /\ last_op = "proc_state"
  /\ call_status = "fatal"
  /\ call_arg.id \notin Procs(net)
  /\ tick_count >= 1

(***************************************************************************)
(* Properties of the procs of the translator's I/O tests (checked under    *)
(* Spec).  A Tick of a package with one proc that starts at the top of its *)
(* body is one tick of that proc; what the channels held when Tick was     *)
(* entered is in pre_tick.                                                 *)
(***************************************************************************)
\* A Tick has returned that found proc 1 at the top of its body and a value
\* on channel 1.
TickOfProc1 ==
  /\ TickReturned
  /\ Len(net.procs) = 1
  /\ pre_tick.continuations[1].pc = 1
  /\ Contents(pre_tick.queues[1]) # <<>>

\* The values channel c held when the Tick was entered, and the first
\* value of channel 1 among them.
Before(c) == Contents(pre_tick.queues[c])

FirstIn == Head(Before(1))

\* Channel c holds what it held before the Tick followed by values.
Appended(c, values) == Contents(queues[c]) = Before(c) \o values

\* C21: conditional send suppression.  In a tick where the condition that
\* guards a send is false the channel of that send is left as it was, and
\* the send on the branch taken is made: IOMulti writes to exactly one of
\* out1 and out2, chosen by sel; IOWriteConditional writes 5 * x only when
\* x > 10.
C21_ConditionalSendSuppression ==
  TickOfProc1 =>
     /\ net.name = "io_multi" =>
           /\ 1 \in completed_procs
           /\ IF net.procs[1].init # 0
              THEN /\ Appended(2, <<(3 * FirstIn) % ValueModulus>>)
                   /\ Size(queues[3]) = Size(pre_tick.queues[3])
                   /\ Appended(3, <<>>)
              ELSE /\ Appended(3, <<(7 * FirstIn) % ValueModulus>>)
                   /\ Size(queues[2]) = Size(pre_tick.queues[2])
                   /\ Appended(2, <<>>)
     /\ net.name = "io_write_conditional" =>
           /\ 1 \in completed_procs
           /\ IF FirstIn > 10
              THEN Appended(2, <<(5 * FirstIn) % ValueModulus>>)
              ELSE /\ Size(queues[2]) = Size(pre_tick.queues[2])
                   /\ Appended(2, <<>>)

\* The first Tick read 5 and wrote nothing, the second read 20 and wrote
\* 100.
C21_Witness ==
  /\ net.name = "io_write_conditional"
  /\ TickOfProc1
  /\ tick_count = 2
  /\ ext_count = 0
  /\ ticks_done[1] = 2
  /\ FirstIn = 20
  /\ Contents(queues[2]) = <<100>>

\* C22: conditional receive suppression.  In IOProcChainedConditionalRead
\* a first value x >= 50 makes the guard of the second read false: the tick
\* completes, without blocking, having consumed exactly one value; with
\* x < 50 and a second value y present it consumes exactly two and writes
\* x, then x + y when that exceeds 100.
C22_ConditionalReceiveSuppression ==
  (TickOfProc1 /\ net.name = "io_chained_conditional_read") =>
     IF FirstIn >= 50
     THEN /\ 1 \in completed_procs
          /\ ~continuations[1].blocked
          /\ Contents(queues[1]) = Tail(Before(1))
          /\ Appended(2, <<FirstIn>>)
     ELSE Len(Before(1)) >= 2 =>
            /\ 1 \in completed_procs
            /\ Contents(queues[1]) = Tail(Tail(Before(1)))
            /\ Appended(2, <<FirstIn>>
                             \o (IF FirstIn + Before(1)[2] > 100
                                 THEN <<(FirstIn + Before(1)[2])
                                         % ValueModulus>>
                                 ELSE <<>>))

\* The single input 55: one value consumed, the tick complete.
C22_Witness ==
  /\ net.name = "io_chained_conditional_read"
  /\ TickOfProc1
  /\ Before(1) = <<55>>
  /\ 1 \in completed_procs
  /\ Contents(queues[1]) = <<>>
  /\ Contents(queues[2]) = <<55>>

\* What channel 1 of IOSubroutine3 carries during a Tick: what it held,
\* then the three values the first proc writes for the input x.
Subroutine3Stream ==
  LET v == (Head(Before(3)) + 6) % ValueModulus
  IN Before(1) \o <<v, (2 * v) % ValueModulus, 55>>

\* C23: program order of channel operations.  The four reads of
\* IOUnrolledSubroutine take the inputs in their order and its four writes
\* appear on out in program order; the three writes of IOSubroutine3
\* (two of them in a subroutine) appear on its channel in program order,
\* and the proc that reads that channel receives them in that order, for
\* either declaration order of the two procs.
C23_ProgramOrder ==
  /\ (TickOfProc1 /\ net.name = "io_unrolled_subroutine"
         /\ Len(Before(1)) >= 4) =>
        /\ 1 \in completed_procs
        /\ Contents(queues[1]) = SubSeq(Before(1), 5, Len(Before(1)))
        /\ Appended(2, <<0, Before(1)[2], (2 * Before(1)[3]) % ValueModulus,
                          (3 * Before(1)[4]) % ValueModulus>>)
  /\ (TickReturned /\ net.name = "io_subroutine3"
         /\ pre_tick.continuations = InitContinuations(net)
         /\ Before(3) # <<>>) =>
        /\ completed_procs = {1, 2}
        /\ Contents(queues[3]) = Tail(Before(3))
        /\ Appended(2, SubSeq(Subroutine3Stream, 1, 3))
        /\ Contents(queues[1])
              = SubSeq(Subroutine3Stream, 4, Len(Subroutine3Stream))

\* The reader is declared first: it blocks, then receives 11, 22, 55.
C23_Witness ==
  /\ net.name = "io_subroutine3"
  /\ net.order = <<2, 1>>
  /\ TickReturned
  /\ ext_count = 0
  /\ tick_count = 1
  /\ pass_count > 2
  /\ Contents(queues[2]) = <<11, 22, 55>>

\* The factor of the proc out.write(factor * in.read()).
Factor == net.procs[1].ops[2].mul

\* C24: end-to-end one in, one out.  For the body out.write(3 * in.read())
\* (and 2 * in.read()): a Tick that finds a value v on in completes the
\* proc, takes v off in and appends 3 * v (2 * v) to out; a Tick that finds
\* in empty leaves out as it was and the proc incomplete.  So after a
\* single value v was enqueued on in and nothing else done from outside,
\* a Tick leaves in empty and out holding exactly 3 * v (2 * v).
C24_OneInOneOut ==
  (TickReturned /\ net.name = "io") =>
     /\ IF Before(1) = <<>>
        THEN /\ 1 \notin completed_procs
             /\ Appended(2, <<>>)
        ELSE /\ 1 \in completed_procs
             /\ tick_result = "ok"
             /\ Contents(queues[1]) = Tail(Before(1))
             /\ Appended(2, <<(Factor * FirstIn) % ValueModulus>>)
     /\ ext_count = 0 => Contents(queues[2]) = <<>>
     /\ (ext_count = 1 /\ ext_enq[1] = 1 /\ call_status = "ok") =>
           /\ Contents(queues[1]) = <<>>
           /\ \E v \in ExtValues : Contents(queues[2]) = <<Factor * v>>

C24_Witness ==
  /\ net.name = "io"
  /\ Factor = 3
  /\ TickReturned
  /\ ext_count = 1
  /\ ext_enq[1] = 1
  /\ 1 \in completed_procs
  /\ Contents(queues[1]) = <<>>
  /\ Contents(queues[2]) = <<900>>

\* The outputs of IOProcStaticClassState for the inputs 80, 100, 33.
StaticClassStateOutputs == <<85, 106, 40>>

\* The Tick that would be made next, as a function of the current state.
NextTick == RunTick(TickEnter(Rt), net, Fuel)

\* IOProcStaticClassState after tick_count Ticks and nothing else: the
\* outputs so far, the state ProcState returns, and the same after one
\* more Tick.
StaticClassStateThreaded ==
  (net.name = "io_static_class_state" /\ tick_pc = "idle" /\ ext_count = 0) =>
     /\ Contents(queues[2]) = SubSeq(StaticClassStateOutputs, 1, tick_count)
     /\ ProcStateOf(continuations, 1).state = 5 + tick_count
     /\ Contents(NextTick.queues[2])
           = SubSeq(StaticClassStateOutputs, 1, tick_count + 1)
     /\ ProcStateOf(NextTick.continuations, 1).state = 5 + tick_count + 1

\* C25: persistent state is threaded across ticks.  The state of a proc
\* changes only in the step in which the proc completes a tick (or in
\* ResetState): entering Tick, returning from it and the time between two
\* Ticks leave it as it is, so a tick starts with the state the previous
\* one ended with.  IOProcStaticClassState (st initially 5) writes 85, 106
\* and 40 for the inputs 80, 100 and 33 and its state is 5 plus the number
\* of its completed ticks.
C25_StateThreaded ==
  /\ []StaticClassStateThreaded
  /\ [][\A p \in DOMAIN continuations :
          continuations'[p].state # continuations[p].state =>
             \/ /\ ticks_done'[p] = ticks_done[p] + 1
                /\ \E acc \in {continuations[p].acc,
                                continuations'[p].state} :
                      continuations'[p].state
                        = NextState(net.procs[p],
                                    [continuations[p] EXCEPT !.acc = acc])
             \/ last_op' = "reset" /\ ext_count' = ext_count + 1]_vars

C25_Witness ==
  /\ net.name = "io_static_class_state"
  /\ TickReturned
  /\ tick_count = 2
  /\ ext_count = 0
  /\ Contents(queues[2]) = <<85, 106>>
  /\ pre_tick.continuations[1].state = 6
  /\ ProcStateOf(continuations, 1).state = 7
  /\ Contents(NextTick.queues[2]) = <<85, 106, 40>>
(***************************************************************************)
(* Properties of the value codec.                                          *)
(***************************************************************************)
\* C26: unpacking the buffer a value of a bits, tuple or array type was
\* packed into gives the value back, and a value enqueued typed and
\* dequeued typed is returned unchanged.
C26_CodecRoundTrip ==
  /\ \A i \in 1..Len(codec.unpacked) : codec.unpacked[i] = codec.value
  /\ \A i \in 1..Len(codec.dequeued) : codec.dequeued[i] = codec.value
  /\ codec.blitted => codec.buffer = PackValue(codec.value, codec.type)

\* A nested tuple with distinct elements has been through both round trips.
C26_Witness ==
  /\ codec.type = TupleType(<<BitsType(1),
                              TupleType(<<BitsType(9), BitsType(8)>>)>>)
  /\ codec.value = <<1, <<300, 17>>>>
  /\ codec.unpacked # <<>>
  /\ codec.dequeued # <<>>
  /\ ~byte_queue.is_single_value

(***************************************************************************)
(* Properties of ByteQueue growth.                                         *)
(***************************************************************************)
\* A write that found the FIFO queue full with its read index off the start
\* of the buffer, and so called Resize.
GrowthWithOffset ==
  /\ resizes' = resizes + 1
  /\ byte_queue.read_index # 0

\* Both indices and the unread region lie inside the usable bytes without
\* wrapping.
WithinLayout(q) ==
  /\ q.read_index < q.max_byte_count
  /\ q.write_index < q.max_byte_count
  /\ q.read_index + q.bytes_used <= q.max_byte_count

\* C27 as stated: after a Resize made with read_index != 0 the unread region
\* starts at offset 0 (read_index = 0) and the indices lie within the new
\* layout.
C27_Original ==
  [][GrowthWithOffset
     => /\ byte_queue'.read_index = 0
        /\ WithinLayout(byte_queue')]_vars

\* C27 (amended): relocation on growth.  When a FIFO ByteQueue overflows
\* with read_index != 0, Resize leaves read_index where it was, leaves the
\* bytes from read_index to the old usable end in place and copies the
\* wrapped bytes [0, read_index) to [bytes_used, bytes_used + read_index),
\* right behind them; the unread region then runs from read_index without
\* wrapping and the indices lie within the new usable byte count.
C27_RelocationBehindTail ==
  [][GrowthWithOffset
     => /\ byte_queue'.read_index = byte_queue.read_index
        /\ \A i \in 1..byte_queue.read_index :
             byte_queue'.circular_buffer[byte_queue.bytes_used + i] =
               byte_queue.circular_buffer[i]
        /\ \A i \in (byte_queue.read_index + 1)..byte_queue.max_byte_count :
             byte_queue'.circular_buffer[i] = byte_queue.circular_buffer[i]
        /\ WithinLayout(byte_queue')]_vars

\* A queue grown while its read index was off the start, and not read
\* since: the oldest unread element is not at offset 0.
C27_Witness ==
  /\ wrapped_resize
  /\ byte_queue.read_index # 0
  /\ byte_queue.read_index + byte_queue.bytes_used
       > Len(byte_queue.circular_buffer) \div 2
  /\ byte_queue.write_index > byte_queue.read_index

\* The offsets of the stored elements of q, oldest first.
StoredOffsets(q) ==
  {(q.read_index + k * q.allocated_element_size) % q.max_byte_count :
     k \in 0..((q.bytes_used \div q.allocated_element_size) - 1)}

\* Stride, buffer size and usable byte count of q, and where its elements
\* lie.
AlignedLayout(q) ==
  /\ q.allocated_element_size % MaxAlign = 0
  /\ q.allocated_element_size >= q.channel_element_size
  /\ q.allocated_element_size - q.channel_element_size < MaxAlign
  /\ \E k \in 0..16 : Len(q.circular_buffer) = 2 ^ k
  /\ Len(q.circular_buffer) >= q.allocated_element_size
  /\ q.max_byte_count % q.allocated_element_size = 0
  /\ q.max_byte_count <= Len(q.circular_buffer)
  /\ Len(q.circular_buffer) - q.max_byte_count < q.allocated_element_size
  /\ q.bytes_used % q.allocated_element_size = 0
  /\ \A offset \in StoredOffsets(q) \cup {q.read_index, q.write_index} :
       /\ offset % q.allocated_element_size = 0
       /\ offset + q.allocated_element_size <= q.max_byte_count

\* C28: growth and element alignment.  The element stride is
\* channel_element_size rounded up to the next multiple of the maximum
\* alignment; the buffer size is a power of two that holds at least one
\* element and doubles on each Resize (and changes at no other time); the
\* usable byte count is floor(buffer size / stride) * stride after
\* construction and after every Resize; and every stored element lies
\* wholly inside the usable bytes.
C28_GrowthAndAlignment ==
  /\ []AlignedLayout(byte_queue)
  /\ [][/\ resizes' = resizes + 1
           => Len(byte_queue'.circular_buffer) =
                2 * Len(byte_queue.circular_buffer)
        /\ resizes' = resizes
           => Len(byte_queue'.circular_buffer) =
                Len(byte_queue.circular_buffer)]_vars

\* A queue of 40-byte elements (stride 48) grown once and full: 240 of its
\* 256 bytes are usable and the last element ends at the usable end.
C28_Witness ==
  /\ byte_queue.channel_element_size = 40
  /\ resizes = 1
  /\ byte_queue.max_byte_count = 240
  /\ Len(byte_queue.circular_buffer) = 256
  /\ byte_queue.bytes_used = byte_queue.max_byte_count

(***************************************************************************)
(* Properties of the passes of a Tick, stated on the record of its         *)
(* invocations.                                                            *)
(***************************************************************************)
\* Position of proc p in the declaration order of the package.
Position(p) == CHOOSE i \in 1..Len(net.order) : net.order[i] = p

\* The procs invoked in pass k, and those that completed their tick before
\* pass k.
InvokedIn(k) == {invoked[i].proc : i \in {j \in 1..Len(invoked) :
                                            invoked[j].pass = k}}

CompleteBefore(k) ==
  {invoked[i].proc : i \in {j \in 1..Len(invoked) :
                              invoked[j].pass < k /\ invoked[j].tick_complete}}

\* Some invocation of pass k reported progress.
ProgressIn(k) ==
  \E i \in 1..Len(invoked) : invoked[i].pass = k /\ invoked[i].progress_made

\* The passes of the current Tick that have run to their end.
FinishedPasses ==
  {k \in 1..pass_count :
     \/ k < pass_count
     \/ tick_pc = "while"
     \/ tick_pc = "idle" /\ tick_result = "ok"}

C30_OneTickPerProc ==
  /\ \A i, j \in 1..Len(invoked) :
        (i < j /\ invoked[i].tick_complete)
           => invoked[j].proc # invoked[i].proc
  /\ \A p \in Procs(net) :
        p \in completed_procs <=>
           \E i \in 1..Len(invoked) :
              invoked[i].proc = p /\ invoked[i].tick_complete
  /\ (completed_procs = Procs(net) /\ tick_pc # "idle")
        => pass_count <= invoked[Len(invoked)].pass + 1
  /\ (completed_procs = Procs(net) /\ TickReturned)
        => pass_count = invoked[Len(invoked)].pass + 1

\* A Tick has returned in which a proc completed its tick in the first pass
\* and was passed over in a later pass that invoked the other proc, while
\* its input channel held another value.
C30_Witness ==
  /\ TickReturned
  /\ \E i \in 1..Len(invoked) :
        /\ invoked[i].tick_complete
        /\ invoked[i].pass = 1
        /\ InvokedIn(2) # {}
        /\ \E j \in 1..Len(net.procs[invoked[i].proc].ops) :
              /\ net.procs[invoked[i].proc].ops[j].op = "recv"
              /\ Contents(queues[net.procs[invoked[i].proc].ops[j].ch]) # <<>>

(***************************************************************************)
(* Properties of continuations between and within Ticks.                   *)
(***************************************************************************)
\* The channel proc p waits for in continuation c, 0 when c does not stand
\* at a receive.
WaitedChannel(p, c) ==
  IF c.pc <= Len(net.procs[p].ops) /\ net.procs[p].ops[c.pc].op = "recv"
  THEN net.procs[p].ops[c.pc].ch ELSE 0

\* Proc p entered the current Tick Blocked at a receive whose channel held
\* a value.
BlockedWithData(p) ==
  /\ pre_tick.continuations[p].blocked
  /\ WaitedChannel(p, pre_tick.continuations[p]) # 0
  /\ Contents(pre_tick.queues[WaitedChannel(p, pre_tick.continuations[p])])
       # <<>>

\* The first invocation of proc p in the current Tick.
FirstInvocation(p) ==
  invoked[CHOOSE i \in 1..Len(invoked) :
            /\ invoked[i].proc = p
            /\ \A j \in 1..(i - 1) : invoked[j].proc # p]

\* The step invokes proc p.
Invokes(p) ==
  /\ Len(invoked') = Len(invoked) + 1
  /\ invoked'[Len(invoked')].proc = p

\* C31: blocked procs resume when data arrives.  The continuation of a proc
\* left Blocked changes only when the proc is invoked (or in ResetState); a
\* proc that enters a Tick Blocked at a receive whose channel holds a value
\* is handed that very continuation, makes progress from the blocked
\* receive, and at the return of the Tick is Complete or Blocked at a later
\* receive.
C31_BlockedResume ==
  /\ [](\A p \in Procs(net) :
          (TickReturned /\ tick_result = "ok" /\ BlockedWithData(p))
            => /\ FirstInvocation(p).continuation = pre_tick.continuations[p]
               /\ FirstInvocation(p).progress_made
               /\ \/ p \in completed_procs
                  \/ /\ continuations[p].blocked
                     /\ continuations[p].pc > pre_tick.continuations[p].pc)
  /\ [][\A p \in Procs(net) :
          (continuations[p].blocked /\ continuations'[p] # continuations[p])
            => \/ Invokes(p)
               \/ last_op' = "reset" /\ ext_count' = ext_count + 1]_vars

\* The proc of "starved" blocked in the first Tick after its send, was given
\* the value it waited for from outside, and completed in the second Tick
\* from the receive: it passed the value on.
C31_Witness ==
  /\ net.name = "starved"
  /\ TickReturned
  /\ tick_count = 2
  /\ BlockedWithData(1)
  /\ pre_tick.continuations[1].pc = 2
  /\ ext_enq[3] = 1
  /\ 1 \in completed_procs
  /\ Contents(queues[2]) = <<300>>

\* C32: exclusive ownership of proc state.  A step runs at most one proc;
\* the invocation of a proc leaves the continuation and the state of every
\* other proc unchanged; and the continuation of a proc differs after a
\* step only if the step invoked that proc or was ResetState.
C32_ExclusiveOwnership ==
  [][/\ \/ Len(invoked') = Len(invoked)
        \/ Len(invoked') = Len(invoked) + 1
        \/ invoked' = <<>>
     /\ \A p, q \in Procs(net) :
           (Invokes(p) /\ q # p) => continuations'[q] = continuations[q]
     /\ \A p \in Procs(net) :
           continuations'[p] # continuations[p]
             => \/ Invokes(p) /\ tick_pc = "for"
                \/ last_op' = "reset" /\ ext_count' = ext_count + 1]_vars

\* In a Tick of two procs the proc invoked last completed with a new state
\* while the other proc stands in the middle of its body.
C32_Witness ==
  /\ Len(net.procs) = 2
  /\ tick_pc = "for"
  /\ Len(invoked) >= 2
  /\ \E p, q \in Procs(net) :
        /\ p # q
        /\ invoked[Len(invoked)].proc = p
        /\ invoked[Len(invoked)].tick_complete
        /\ continuations[p].state # invoked[Len(invoked)].continuation.state
        /\ continuations[q].pc > 1

(***************************************************************************)
(* Properties of ResetState.                                               *)
(***************************************************************************)
\* The step is a call of ResetState.
ResetStep == last_op' = "reset" /\ ext_count' = ext_count + 1

\* C33: ResetState keeps the compiled entry points.  ResetState gives every
\* proc of the package a continuation newly made by the proc's entry point
\* and leaves proc_jits_ and the queue manager as they are; every proc stays
\* bound to the entry point Init made for it, which holds the one queue
\* manager.
C33_ResetKeepsEntryPoints ==
  /\ [][ResetStep
          => /\ proc_jits' = proc_jits
             /\ queue_mgr' = queue_mgr
             /\ DOMAIN queues' = DOMAIN queues
             /\ DOMAIN continuations' = Procs(net)
             /\ \A p \in Procs(net) :
                   continuations'[p]
                     = NewContinuation(net.procs[proc_jits[p].proc])]_vars
  /\ [](tick_pc # "none"
          => /\ DOMAIN proc_jits = Procs(net)
             /\ \A p \in Procs(net) :
                   /\ proc_jits[p].proc = p
                   /\ proc_jits[p].queue_mgr = queue_mgr
                   /\ proc_jits[p].ordinal = Position(p))

\* ResetState was called after a Tick that left one proc in the middle of
\* its body and another with a state of its own, and the Tick made after
\* it has run both procs from the top.
C33_Witness ==
  /\ tick_count = 2
  /\ TickReturned
  /\ ext_count >= 1
  /\ pre_tick.continuations = InitContinuations(net)
  /\ \E p, q \in Procs(net) :
        /\ pre_reset.continuations[p].pc > 1
        /\ pre_reset.continuations[q].state # net.procs[q].init
        /\ ticks_done[q] = 2

\* C35: ResetState does not touch the channels.  The contents and the size
\* of every channel queue are the same right after ResetState as right
\* before it: values enqueued or left over are still there, in order, for a
\* later dequeue or Tick, and no initial value is enqueued again.
C35_ResetLeavesChannels ==
  /\ [][ResetStep
          => \A c \in Chans :
                /\ Contents(queues'[c]) = Contents(queues[c])
                /\ Size(queues'[c]) = Size(queues[c])]_vars
  /\ [][(ResetReturned /\ last_op' = "dequeue")
          => \E c \in Chans :
                /\ Contents(queues'[c])
                     = IF \/ Contents(pre_reset.queues[c]) = <<>>
                          \/ net.chans[c].single
                       THEN Contents(pre_reset.queues[c])
                       ELSE Tail(Contents(pre_reset.queues[c]))
                /\ \A d \in Chans \ {c} :
                      Contents(queues'[d]) = Contents(pre_reset.queues[d])]_vars

\* ResetState has returned in "seeded" after a Tick that took the first
\* initial value off channel 1 and put it on channel 2: channel 1 holds the
\* second initial value only and channel 2 the value left over.
C35_Witness ==
  /\ net.name = "seeded"
  /\ ResetReturned
  /\ tick_count = 1
  /\ Contents(queues[1]) = <<300>>
  /\ Contents(queues[2]) = <<1>>
  /\ Contents(queues[1]) # net.chans[1].init

(***************************************************************************)
(* The calls of a runtime's owner on packages with and without procs.      *)
(***************************************************************************)
\* Packages that declare channels but no proc, without and with initial
\* values.
NetNoProcs ==
  [name |-> "no_procs", procs |-> <<>>, chans |-> NoValues,
   uncompilable |-> {}]

NetNoProcsSeeded ==
  [name |-> "no_procs_seeded", procs |-> <<>>, chans |-> InputOn1(<<5>>),
   uncompilable |-> {}]

CallsNetworks ==
  UNION {{WithOrder(b, o) : o \in Orders(Len(b.procs))} :
           b \in {NetNoProcs, NetNoProcsSeeded, NetPingPong,
                  NetProducerConsumer, NetFailing, NetSeeded,
                  NetUncompilable}}

\* The buffers a caller hands to EnqueueBufferToChannel: shorter than an
\* element of the channel, exactly one element, longer than one element.
RawBuffers == {<<7>>, <<7, 1>>, <<7, 1, 9>>}

\* The values of a byte read behind the end of the caller's buffer.
IndeterminateBytes == {0, 255}

\* The n bytes a copy of n bytes reads at buffer.data(): the length of the
\* span is not passed on, so the copy reads the first n bytes of a long
\* buffer and reads behind the end of a short one.
SpanData(buffer, n) ==
  IF Len(buffer) >= n THEN {SubSeq(buffer, 1, n)}
  ELSE {buffer \o pad : pad \in [1..(n - Len(buffer)) -> IndeterminateBytes]}

\* Mutant: the length of the buffer is checked against the element size.
EnqueueRawToChannel_Checked(qs, c, buffer, data) ==
  IF Len(buffer) # ChanTypeBytes
  THEN [status |-> "error", queues |-> qs]
  ELSE [status |-> "ok",
        queues |-> [qs EXCEPT ![c] = EnqueueBuffer(qs[c], data)]]

\* SerialProcRuntime::EnqueueBufferToChannel on the queue of channel c; data
\* is what is read at buffer.data().
EnqueueRawToChannel(qs, c, buffer, data) ==
  [status |-> "ok",
   queues |-> [qs EXCEPT ![c] = EnqueueBuffer(qs[c], data)]]

EnqueueBufferToChannel(c, buffer) ==
  /\ queue_mgr # 0
  /\ tick_pc = "idle"
  /\ ext_count < MaxExtOps
  /\ \E data \in SpanData(buffer, ChanTypeBytes) :
     \E r \in {EnqueueRawToChannel(queues, c, buffer, data)} :
        /\ queues' = r.queues
        /\ call_status' = r.status
        /\ ext_enq' = [ext_enq EXCEPT
                         ![c] = ext_enq[c] + (IF r.status = "ok" THEN 1 ELSE 0)]
  /\ call_arg' = [id |-> c, bytes |-> Len(buffer), buffer |-> buffer]
  /\ ext_count' = ext_count + 1
  /\ last_op' = "enqueue_raw"
  /\ UNCHANGED <<net, continuations, tick_pc, progress_made,
                 completed_procs, proc_i, tick_result, pre_tick, pre_reset,
                 pass_count, tick_count, sent_total, ticks_done, abandoned,
                 resumed, last_progress, invoked, proc_jits, queue_mgr>>
  /\ UNCHANGED <<queue_vars, thread_vars>>

\* The calls that resolve a channel through the queue manager.
ManagerCalls == {"enqueue", "enqueue_raw", "dequeue", "get_jit_queue"}

\* Such a call on a runtime without a queue manager calls a member function
\* through a null pointer: what follows is not defined.
NullManagerCall(op, c) ==
  /\ queue_mgr = 0
  /\ \E outcome \in UndefinedOutcomes : Lookup(op, c, outcome)

CallsInit ==
  /\ \E n \in CallsNetworks : RuntimeInitFor(n)
  /\ QueueInitFor(ChanTypeBytes, FALSE)
  /\ codec = NoCodec
  /\ ThreadInitFor(NoCalls)

CallsNext ==
  \/ Next
  \/ \E c \in Chans, buffer \in RawBuffers : EnqueueBufferToChannel(c, buffer)
  \/ \E op \in ManagerCalls, c \in Chans : NullManagerCall(op, c)

SpecCalls == CallsInit /\ [][CallsNext]_vars

(***************************************************************************)
(* Properties of the raw enqueue.                                          *)
(***************************************************************************)
RawEnqueueStep ==
  /\ last_op' = "enqueue_raw"
  /\ ext_count' = ext_count + 1
  /\ queue_mgr # 0

\* The value of the element that a raw enqueue of the buffer leaves when the
\* bytes of the buffer are taken in order and the rest of the element is v's.
AgreesWith(v, buffer) ==
  \A i \in 1..ChanTypeBytes :
     i <= Len(buffer) => ToBytes(v, ChanTypeBytes)[i] = buffer[i]

\* C34: a raw enqueue on a known channel returns OK whatever the length and
\* the content of the buffer, and leaves exactly one more element on the
\* channel's queue (the one element of a single-value channel): the bytes of
\* the element are the leading bytes at the buffer's address, a longer
\* buffer's further bytes are dropped, and no other channel and no
\* continuation changes.
C34_RawEnqueueUnchecked ==
  [][RawEnqueueStep =>
       LET c == call_arg'.id
           before == Contents(queues[c])
           after == Contents(queues'[c])
       IN /\ call_status' = "ok"
          /\ tick_pc' = "idle"
          /\ ext_enq'[c] = ext_enq[c] + 1
          /\ IF net.chans[c].single
             THEN Len(after) = 1
             ELSE /\ Len(after) = Len(before) + 1
                  /\ SubSeq(after, 1, Len(before)) = before
          /\ AgreesWith(after[Len(after)], call_arg'.buffer)
          /\ \A d \in Chans \ {c} : queues'[d] = queues[d]
          /\ continuations' = continuations]_vars

\* A buffer shorter than the element has been enqueued raw, then one longer
\* than the element, both with status OK.
C34_Witness ==
  /\ last_op = "enqueue_raw"
  /\ call_status = "ok"
  /\ call_arg.id = 2
  /\ call_arg.bytes > ChanTypeBytes
  /\ ext_enq[2] = 2
  /\ Len(Contents(queues[2])) = 2
  /\ Contents(queues[2])[1] = 7 + 256 * 255

(***************************************************************************)
(* Properties of the queue manager's creation.                             *)
(***************************************************************************)
NoProcs == Len(net.order) = 0

\* C38: the runtime has a queue manager exactly if its package has a proc;
\* every entry point holds that one manager; a runtime of a package
\* without procs never gets a manager or a queue, whatever is called on it,
\* although the package declares channels.
C38_ManagerOnlyWithProc ==
  /\ [](/\ queue_mgr = (IF NoProcs THEN 0 ELSE 1)
        /\ \A p \in DOMAIN proc_jits : proc_jits[p].queue_mgr = queue_mgr
        /\ NoProcs => /\ DOMAIN queues = {}
                      /\ DOMAIN proc_jits = {}
        /\ ~NoProcs => DOMAIN queues = Chans)
  /\ [][queue_mgr' = queue_mgr /\ proc_jits' = proc_jits]_vars

\* A runtime of a package without procs whose channel 1 declares an initial
\* value was created, and an enqueue on it has ended the program.
C38_Witness ==
  /\ NoProcs
  /\ net.chans[1].init # <<>>
  /\ queue_mgr = 0
  /\ last_op = "enqueue"
  /\ tick_pc = "aborted"

(***************************************************************************)
(* Properties of a Tick call as a whole.                                   *)
(***************************************************************************)
\* The last invocation of the current Tick returned an error in the first
\* pass, before proc p was reached.
AbortedBefore(p) ==
  /\ tick_result = "error"
  /\ invoked # <<>>
  /\ invoked[Len(invoked)].error
  /\ invoked[Len(invoked)].pass = 1
  /\ Position(invoked[Len(invoked)].proc) < Position(p)

\* C36 as stated: every proc of the package is invoked at least once in
\* every Tick call.
C36_Original ==
  TickReturned =>
     \A p \in Procs(net) : \E i \in 1..Len(invoked) : invoked[i].proc = p

\* C36: completion does not carry over between Tick calls.  The set of
\* completed procs is empty when a Tick call enters its loop, whatever the
\* previous Tick call left, and every proc of the package is invoked in the
\* first pass of every Tick call, except the procs behind one whose
\* invocation returned an error in that pass.
C36_CompletionStartsEmpty ==
  /\ (tick_pc = "while" /\ pass_count = 0) => completed_procs = {}
  /\ (tick_pc = "for" /\ pass_count = 1)
        => /\ completed_procs \subseteq {net.order[i] : i \in 1..(proc_i - 1)}
           /\ InvokedIn(1) = {net.order[i] : i \in 1..(proc_i - 1)}
  /\ TickReturned =>
        \A p \in Procs(net) : p \in InvokedIn(1) \/ AbortedBefore(p)

\* The second Tick call has returned; it invoked, in its first pass, a proc
\* that completed its tick in the first Tick call and a proc that the first
\* Tick call left Blocked.
C36_Witness ==
  /\ TickReturned
  /\ tick_count = 2
  /\ tick_result = "ok"
  /\ pre_tick.result = "ok"
  /\ \E p, q \in Procs(net) :
        /\ ticks_done[p] = 2
        /\ pre_tick.continuations[q].blocked
        /\ {p, q} \subseteq InvokedIn(1)

\* The step in which an invocation returns an error to Tick.
ErrorStep == tick_pc = "for" /\ tick_pc' = "idle"

\* C37: a failing invocation aborts the Tick at once.  An invocation that
\* returned an error is the last invocation of its Tick call: Tick has
\* returned the error, no proc later in declaration order was invoked in
\* that pass and no further pass was started.  The step that returns the
\* error undoes nothing: the queues are those the failing invocation left,
\* computed from the queues its predecessors left, and the continuations,
\* the completed ticks and the sends of the other procs stay as they were.
C37_ErrorAbortsTick ==
  /\ [](\A i \in 1..Len(invoked) :
          invoked[i].error =>
             /\ i = Len(invoked)
             /\ tick_pc \in {"idle", "aborted"}
             /\ tick_result = "error"
             /\ pass_count = invoked[i].pass
             /\ \A j \in 1..Len(invoked) :
                   invoked[j].pass = invoked[i].pass =>
                      Position(invoked[j].proc) <= Position(invoked[i].proc))
  /\ [][ErrorStep =>
          LET p == net.order[proc_i]
              r == ProcJitTick(net.procs[p], continuations[p], queues)
          IN /\ r.error
             /\ tick_result' = "error"
             /\ last_op' = "tick"
             /\ queues' = r.queues
             /\ continuations' = [continuations EXCEPT ![p] = r.continuation]
             /\ completed_procs' = completed_procs
             /\ ticks_done' = ticks_done
             /\ \A q \in Procs(net) \ {p} : sent_total'[q] = sent_total[q]
             /\ Len(invoked') = Len(invoked) + 1
             /\ SubSeq(invoked', 1, Len(invoked)) = invoked]_vars

\* A Tick call has returned an error from its second invocation: the first
\* invocation, of the proc declared first, had received a value, sent it on
\* and completed its tick, and what it wrote is on its output channel next
\* to what the failing invocation wrote before it failed.
C37_Witness ==
  /\ TickReturned
  /\ tick_result = "error"
  /\ tick_count = 1
  /\ Len(invoked) = 2
  /\ invoked[1].tick_complete
  /\ invoked[2].error
  /\ completed_procs = {invoked[1].proc}
  /\ Contents(pre_tick.queues[2]) = <<>>
  /\ Contents(queues[2]) = <<300>>
  /\ Contents(queues[1]) = <<1>>
  /\ ticks_done[invoked[1].proc] = 1
  /\ sent_total[invoked[1].proc] = 1

====
